---- MODULE Spec2Model ----
(***************************************************************************)
(* SmartMark-Chat (src/main.ts): the reverse context scanner               *)
(* (getContextMessages) and the streaming insertion writer                 *)
(* (updateStreamingContent / finalizeStreamingContent / interruptAI) of    *)
(* the AIPlugin class, together with the Ask AI request life cycle         *)
(* (editorCallback -> callOpenAI -> generateResponse).                     *)
(*                                                                         *)
(* A string is a sequence of one-character strings.  A document is the     *)
(* sequence of its lines (the editor's getLine(i) is doc[i+1]).            *)
(***************************************************************************)
EXTENDS Integers, Sequences, FiniteSets, TLC

(***************************************************************************)
(* Bounds of the model                                                     *)
(***************************************************************************)
MaxLines == 4      \* longest document drawn by the scanner specification
MaxBudget == 2     \* largest contextLines setting drawn
MaxChunks == 3     \* content chunks of the stream of the writer specification
MaxReads == 2      \* network reads delivered to one response stream
MaxEdits == 1      \* user edits made while one response streams
MaxBaseLines == 2  \* ordinary lines around the one unusual line of a document
MaxBlockLines == 3 \* content lines of the block of the block specification
MaxAbove == 6      \* lines above the prompt line of the Ask AI specification

\* null in a position field and in a controller field
NoPosition == [line |-> -1, ch |-> -1]
NoController == 0

(***************************************************************************)
(* JavaScript string primitives used by the source                         *)
(***************************************************************************)
WhiteSpace == {" ", "\t", "\n"}

RECURSIVE trimStart(_)
trimStart(s) ==
  IF s = <<>> THEN s
  ELSE IF Head(s) \in WhiteSpace THEN trimStart(Tail(s)) ELSE s

RECURSIVE trimEnd(_)
trimEnd(s) ==
  IF s = <<>> THEN s
  ELSE IF s[Len(s)] \in WhiteSpace THEN trimEnd(SubSeq(s, 1, Len(s) - 1)) ELSE s

\* String.prototype.trim
trim(s) == trimEnd(trimStart(s))

\* String.prototype.startsWith
startsWith(s, p) == Len(s) >= Len(p) /\ SubSeq(s, 1, Len(p)) = p

\* String.prototype.endsWith
endsWith(s, p) == Len(s) >= Len(p) /\ SubSeq(s, Len(s) - Len(p) + 1, Len(s)) = p

\* String.prototype.includes
includes(s, p) == \E i \in 1..(Len(s) - Len(p) + 1) : SubSeq(s, i, i + Len(p) - 1) = p

\* String.prototype.substring(n)
substring(s, n) == SubSeq(s, n + 1, Len(s))

(***************************************************************************)
(* Marker literals of the source                                           *)
(***************************************************************************)
UserMark == <<"=", "=", "=">>                 \* '==='
AiMark == <<"=", " ", "=">>                   \* '= ='
TermMark == <<"=", "-", "=">>                 \* '=-='
DashMark == <<"-", "-", "-", "-", "-">>       \* '-----'
NL == <<"\n">>

(***************************************************************************)
(* Lines the scanner specification builds its documents from               *)
(***************************************************************************)
ScanLines ==
  { UserMark,                                  \* ===
    AiMark,                                    \* = =
    TermMark,                                  \* =-=
    DashMark,                                  \* -----
    <<"=", "=", "=", "q">>,                    \* ===q   inline user turn
    <<"=", " ", "=", "r">>,                    \* = =r   inline assistant turn
    <<"a">>,                                   \* plain content
    <<" ">> }                                  \* blank line

RECURSIVE SeqsUpTo(_, _)
SeqsUpTo(S, n) ==
  IF n = 0 THEN {<<>>}
  ELSE LET shorter == SeqsUpTo(S, n - 1)
       IN  shorter \cup {Append(s, x) : s \in {t \in shorter : Len(t) = n - 1}, x \in S}

ScanDocs == SeqsUpTo(ScanLines, MaxLines) \ {<<>>}

(***************************************************************************)
(* State                                                                   *)
(***************************************************************************)
VARIABLES
  doc,            \* editor document: sequence of lines
  cursor,         \* editor.getCursor(): [line, ch]
  activeEditor,   \* app.workspace.activeEditor?.editor is the document's editor
                  \*   (TRUE) or undefined (FALSE)
  settings,       \* this.settings: apiKey (set or empty), contextLines,
                  \*   elegantMode, enableTimestamp, autoAddSeparator
  addedSeparatorInCurrentSession,
  streamInsertPosition,
  lastContentLength,
  currentAbortController,   \* the request whose AbortController the field holds
  isStreaming,
  aborted,        \* the AbortControllers (by creating request) that were aborted
  req,            \* per Ask AI invocation: pc, signal (controller passed to
                  \*   fetch), result, reads (network reads consumed), sent,
                  \*   wrote (history: a chunk of it went into the document),
                  \*   deltas (history: the content deltas of the response
                  \*   body), offset (characters of the body already read)
  calls,          \* history: the writer calls made by the last step
  hist,           \* history: what interrupt commands met and what followed
                  \*   (intr, lateChunk, lateEnd, noTag), user edits made (edits)
  messages,       \* value returned by the last getContextMessages call
  pc              \* position of the driver of the scanner/writer specifications

editorVars == <<doc, cursor, activeEditor>>
pluginVars == <<addedSeparatorInCurrentSession, streamInsertPosition, lastContentLength,
                currentAbortController, isStreaming>>
requestVars == <<aborted, req, calls, hist>>
vars == <<doc, cursor, activeEditor, settings, addedSeparatorInCurrentSession, streamInsertPosition,
          lastContentLength, currentAbortController, isStreaming, aborted, req,
          calls, hist, messages, pc>>

\* the Ask AI invocations of a run: a response and a second one that may be
\* started while the first is in flight (the plugin holds one set of fields)
Requests == {1, 2}

\* DEFAULT_SETTINGS (src/main.ts 19-33) with an API key entered
DefaultSettings ==
  [apiKey |-> TRUE, contextLines |-> 3, elegantMode |-> TRUE,
   enableTimestamp |-> TRUE, autoAddSeparator |-> TRUE]

\* the plugin fields after construction (src/main.ts 38-43) and no request
PluginInit ==
  /\ addedSeparatorInCurrentSession = FALSE
  /\ streamInsertPosition = NoPosition
  /\ lastContentLength = 0
  /\ currentAbortController = NoController
  /\ isStreaming = FALSE
  /\ aborted = {}
  /\ req = [r \in Requests |->
             [pc |-> "idle", signal |-> NoController, result |-> <<>>, reads |-> 0,
              sent |-> <<>>, wrote |-> FALSE, deltas |-> <<>>, offset |-> 0]]
  /\ calls = <<>>
  /\ hist = [intr |-> {}, lateChunk |-> {}, lateEnd |-> {}, noTag |-> {}, edits |-> 0]

\* Editor.getLine(i), 0-based
getLine(d, i) == d[i + 1]

(***************************************************************************)
(* saveCollectedContent (src/main.ts 331-342).  The field src of a turn    *)
(* is a history field: the set of line indices its content was read from.  *)
(***************************************************************************)
saveCollectedContent_push(msgs, collectingContent, collectingMode, collectingLines) ==
  IF trim(collectingContent) # <<>> /\ collectingMode # "none"
  THEN msgs \o <<[role |-> collectingMode,
                  content |-> trim(collectingContent),
                  src |-> collectingLines]>>
  ELSE msgs

saveCollectedContent_noTrim(msgs, collectingContent, collectingMode, collectingLines) ==
  IF collectingContent # <<>> /\ collectingMode # "none"
  THEN <<[role |-> collectingMode,
          content |-> trim(collectingContent),
          src |-> collectingLines]>> \o msgs
  ELSE msgs

saveCollectedContent(msgs, collectingContent, collectingMode, collectingLines) ==
  IF trim(collectingContent) # <<>> /\ collectingMode # "none"
  THEN <<[role |-> collectingMode,
          content |-> trim(collectingContent),
          src |-> collectingLines]>> \o msgs
  ELSE msgs

isTerminator_typo(trimmedLine) == startsWith(trimmedLine, <<"=", "=", "=", "-">>)

isTerminator_xLines(trimmedLine) ==
  \/ startsWith(trimmedLine, TermMark)
  \/ Len(trimmedLine) >= 4 /\ \A n \in 1..Len(trimmedLine) : trimmedLine[n] \in {"x", "X"}

\* the termination test of the scan loop (src/main.ts 359)
isTerminator(trimmedLine) == startsWith(trimmedLine, TermMark)

\* scan state at the start of the loop (src/main.ts 349-351)
ScanInit ==
  [messages |-> <<>>, collectingContent |-> <<>>, collectingMode |-> "none",
   collectingLines |-> {}, terminatedAt |-> -1, reads |-> <<>>]

BoundaryStep_flushUnderNewRole(st, role, rd) ==
  [st EXCEPT !.messages = saveCollectedContent(st.messages, st.collectingContent,
                                               role, st.collectingLines),
             !.collectingContent = <<>>,
             !.collectingMode = role,
             !.collectingLines = {},
             !.reads = rd]

\* a block boundary line: flush, then collect under the boundary's role
BoundaryStep(st, role, rd) ==
  [st EXCEPT !.messages = saveCollectedContent(st.messages, st.collectingContent,
                                               st.collectingMode, st.collectingLines),
             !.collectingContent = <<>>,
             !.collectingMode = role,
             !.collectingLines = {},
             !.reads = rd]

InlineStep_keepsMode(st, role, line, i, rd) ==
  [st EXCEPT !.messages =
               <<[role |-> role, content |-> trim(substring(line, 3)), src |-> {i}]>>
               \o saveCollectedContent(st.messages, st.collectingContent,
                                       st.collectingMode, st.collectingLines),
             !.collectingContent = <<>>,
             !.collectingLines = {},
             !.reads = rd]

\* an inline line: flush, emit the single-line turn, stop collecting
InlineStep(st, role, line, i, rd) ==
  [st EXCEPT !.messages =
               <<[role |-> role, content |-> trim(substring(line, 3)), src |-> {i}]>>
               \o saveCollectedContent(st.messages, st.collectingContent,
                                       st.collectingMode, st.collectingLines),
             !.collectingContent = <<>>,
             !.collectingMode = "none",
             !.collectingLines = {},
             !.reads = rd]

ScanBody_trimmedSeparator(st, line, i) ==
  LET trimmedLine == trim(line)
      rd == Append(st.reads, i)
  IN
  IF includes(line, UserMark) THEN
       IF trimmedLine = UserMark THEN BoundaryStep(st, "user", rd)
       ELSE IF startsWith(line, UserMark) /\ ~endsWith(line, UserMark)
            THEN InlineStep(st, "user", line, i, rd)
            ELSE [st EXCEPT !.reads = rd]
  ELSE IF includes(line, AiMark) THEN
       IF trimmedLine = AiMark THEN BoundaryStep(st, "assistant", rd)
       ELSE IF startsWith(line, AiMark) /\ ~endsWith(line, AiMark)
            THEN InlineStep(st, "assistant", line, i, rd)
            ELSE [st EXCEPT !.reads = rd]
  ELSE IF startsWith(trimmedLine, DashMark) THEN
       BoundaryStep(st, "none", rd)
  ELSE IF st.collectingMode # "none" THEN
       [st EXCEPT !.collectingContent =
                     IF st.collectingContent # <<>>
                     THEN line \o NL \o st.collectingContent
                     ELSE line,
                  !.collectingLines = st.collectingLines \cup {i},
                  !.reads = rd]
  ELSE [st EXCEPT !.reads = rd]

ScanBody_trimmedInline(st, line, i) ==
  LET trimmedLine == trim(line)
      rd == Append(st.reads, i)
  IN
  IF includes(line, UserMark) THEN
       IF trimmedLine = UserMark THEN BoundaryStep(st, "user", rd)
       ELSE IF startsWith(trimmedLine, UserMark) /\ ~endsWith(trimmedLine, UserMark)
            THEN InlineStep(st, "user", trimmedLine, i, rd)
            ELSE [st EXCEPT !.reads = rd]
  ELSE IF includes(line, AiMark) THEN
       IF trimmedLine = AiMark THEN BoundaryStep(st, "assistant", rd)
       ELSE IF startsWith(trimmedLine, AiMark) /\ ~endsWith(trimmedLine, AiMark)
            THEN InlineStep(st, "assistant", trimmedLine, i, rd)
            ELSE [st EXCEPT !.reads = rd]
  ELSE IF startsWith(line, DashMark) THEN
       BoundaryStep(st, "none", rd)
  ELSE IF st.collectingMode # "none" THEN
       [st EXCEPT !.collectingContent =
                     IF st.collectingContent # <<>>
                     THEN line \o NL \o st.collectingContent
                     ELSE line,
                  !.collectingLines = st.collectingLines \cup {i},
                  !.reads = rd]
  ELSE [st EXCEPT !.reads = rd]

ScanBody_appendsLine(st, line, i) ==
  LET trimmedLine == trim(line)
      rd == Append(st.reads, i)
  IN
  IF includes(line, UserMark) THEN
       IF trimmedLine = UserMark THEN BoundaryStep(st, "user", rd)
       ELSE IF startsWith(line, UserMark) /\ ~endsWith(line, UserMark)
            THEN InlineStep(st, "user", line, i, rd)
            ELSE [st EXCEPT !.reads = rd]
  ELSE IF includes(line, AiMark) THEN
       IF trimmedLine = AiMark THEN BoundaryStep(st, "assistant", rd)
       ELSE IF startsWith(line, AiMark) /\ ~endsWith(line, AiMark)
            THEN InlineStep(st, "assistant", line, i, rd)
            ELSE [st EXCEPT !.reads = rd]
  ELSE IF startsWith(line, DashMark) THEN
       BoundaryStep(st, "none", rd)
  ELSE IF st.collectingMode # "none" THEN
       [st EXCEPT !.collectingContent =
                     IF st.collectingContent # <<>>
                     THEN st.collectingContent \o NL \o line
                     ELSE line,
                  !.collectingLines = st.collectingLines \cup {i},
                  !.reads = rd]
  ELSE [st EXCEPT !.reads = rd]

\* body of one loop iteration below the termination test (src/main.ts 364-437)
ScanBody(st, line, i) ==
  LET trimmedLine == trim(line)
      rd == Append(st.reads, i)
  IN
  IF includes(line, UserMark) THEN
       IF trimmedLine = UserMark THEN BoundaryStep(st, "user", rd)
       ELSE IF startsWith(line, UserMark) /\ ~endsWith(line, UserMark)
            THEN InlineStep(st, "user", line, i, rd)
            ELSE [st EXCEPT !.reads = rd]
  ELSE IF includes(line, AiMark) THEN
       IF trimmedLine = AiMark THEN BoundaryStep(st, "assistant", rd)
       ELSE IF startsWith(line, AiMark) /\ ~endsWith(line, AiMark)
            THEN InlineStep(st, "assistant", line, i, rd)
            ELSE [st EXCEPT !.reads = rd]
  ELSE IF startsWith(line, DashMark) THEN
       BoundaryStep(st, "none", rd)
  ELSE IF st.collectingMode # "none" THEN
       [st EXCEPT !.collectingContent =
                     IF st.collectingContent # <<>>
                     THEN line \o NL \o st.collectingContent
                     ELSE line,
                  !.collectingLines = st.collectingLines \cup {i},
                  !.reads = rd]
  ELSE [st EXCEPT !.reads = rd]

\* the for loop of getContextMessages (src/main.ts 354-438)
RECURSIVE ScanLoop(_, _, _, _)
ScanLoop(d, i, k, st) ==
  IF ~(i >= 0 /\ Len(st.messages) < k * 2) THEN st
  ELSE LET line == getLine(d, i)
       IN  IF isTerminator(trim(line))
           THEN [st EXCEPT !.terminatedAt = i, !.reads = Append(st.reads, i)]
           ELSE ScanLoop(d, i - 1, k, ScanBody(st, line, i))

ScanEnd_fromLastLine(d, currentLine, k) == ScanLoop(d, Len(d) - 1, k, ScanInit)

ScanEnd_aboveStart(d, currentLine, k) == ScanLoop(d, currentLine - 1, k, ScanInit)

ScanEnd_budgetAtLeastOne(d, currentLine, k) ==
  ScanLoop(d, currentLine, IF k < 1 THEN 1 ELSE k, ScanInit)

\* the scan state when the loop has ended, before the final flush
ScanEnd(d, currentLine, k) == ScanLoop(d, currentLine, k, ScanInit)

getContextMessages_noFinalFlush(d, currentLine, k) ==
  ScanEnd(d, currentLine, k).messages

\* getContextMessages with an editor (src/main.ts 348-444)
getContextMessages(d, currentLine, k) ==
  LET st == ScanEnd(d, currentLine, k)
  IN  saveCollectedContent(st.messages, st.collectingContent,
                           st.collectingMode, st.collectingLines)

\* getContextMessages from its first line: without an active editor the
\* transcript is empty (src/main.ts 344-346)
getContextMessagesOf(editor, d, currentLine, k) ==
  IF ~editor THEN <<>> ELSE getContextMessages(d, currentLine, k)

RECURSIVE joinLines(_)
joinLines(ls) ==
  IF ls = <<>> THEN <<>>
  ELSE IF Len(ls) = 1 THEN ls[1]
  ELSE ls[1] \o NL \o joinLines(Tail(ls))

(***************************************************************************)
(* The editor (Obsidian Editor over the document).  A position is          *)
(* [line, ch]; replaceRange inserts at the offset  start of pos.line +     *)
(* pos.ch  of the document text (the writer relies on ch running past the  *)
(* end of the line into the lines below it), at most the document length.  *)
(* The editing cursor moves with text inserted strictly before it.         *)
(***************************************************************************)
Min(a, b) == IF a < b THEN a ELSE b
Max(a, b) == IF a > b THEN a ELSE b

RECURSIVE splitLines(_)
splitLines(t) ==
  IF \A i \in 1..Len(t) : t[i] # "\n" THEN <<t>>
  ELSE LET n == CHOOSE i \in 1..Len(t) :
                  t[i] = "\n" /\ \A j \in 1..(i - 1) : t[j] # "\n"
       IN  <<SubSeq(t, 1, n - 1)>> \o splitLines(SubSeq(t, n + 1, Len(t)))

RECURSIVE lineStart(_, _)
lineStart(d, l) ==
  IF l = 0 THEN 0 ELSE lineStart(d, l - 1) + Len(d[l]) + 1

textLength(d) == lineStart(d, Len(d)) - 1

\* Editor.lastLine()
lastLine(d) == Len(d) - 1

\* Editor.posToOffset
posToOffset(d, pos) ==
  IF pos.line > lastLine(d) THEN textLength(d)
  ELSE Min(lineStart(d, pos.line) + pos.ch, textLength(d))

\* Editor.offsetToPos
offsetToPos(d, off) ==
  LET l == CHOOSE k \in 0..lastLine(d) :
             /\ lineStart(d, k) <= off
             /\ off <= lineStart(d, k) + Len(d[k + 1])
  IN  [line |-> l, ch |-> off - lineStart(d, l)]

insertAt(t, off, str) == SubSeq(t, 1, off) \o str \o SubSeq(t, off + 1, Len(t))

\* Editor.replaceRange(str, pos) on the editor state ed = [doc, cursor]
replaceRange(ed, str, pos) ==
  LET off == posToOffset(ed.doc, pos)
      cur == posToOffset(ed.doc, ed.cursor)
      d2  == splitLines(insertAt(joinLines(ed.doc), off, str))
  IN  [doc |-> d2,
       cursor |-> offsetToPos(d2, IF off < cur THEN cur + Len(str) ELSE cur)]

(***************************************************************************)
(* Text literals of the writer.  The five CJK characters of the            *)
(* interruption tag are written h f y z d; the timestamp the clock yields  *)
(* is written T.                                                           *)
(***************************************************************************)
ElegantSeparator == <<"\n", "-", "-", "-", "-", "-", "\n">>    \* "\n-----\n"
PlainSeparator == <<"-", "-", "-", "-", "-", "\n">>            \* "-----\n"
EndMarker == <<"\n", "=", " ", "=">>                           \* '\n= ='
InterruptTag == <<"[", "A", "I", "h", "f", "y", "z", "d", "]">>
InterruptText == NL \o InterruptTag \o EndMarker               \* '\n[AI...]\n= ='
Timestamp == <<"<", "!", "-", "-", " ", "T", " ", "-", "-", ">">>
ContinueText ==                                                \* '\n===Continue...\n-----\n'
  <<"\n", "=", "=", "=", "C", "o", "n", "t", "i", "n", "u", "e", ".", ".", ".",
    "\n", "-", "-", "-", "-", "-", "\n">>
AutoSeparator == <<"=", " ", "=", "\n">>                       \* '= =\n'
ThoughtOpen == <<"<", "t", "h", "o", "u", "g", "h", "t", ">">>
ThoughtClose == <<"<", "/", "t", "h", "o", "u", "g", "h", "t", ">">>
BracketOpen == <<"[", "t", "h", "o", "u", "g", "h", "t", "]">>
BracketClose == <<"[", "/", "t", "h", "o", "u", "g", "h", "t", "]">>

\* String.prototype.replace(/pat/g, rep)
RECURSIVE replaceAll(_, _, _)
replaceAll(s, pat, rep) ==
  IF Len(s) < Len(pat) THEN s
  ELSE IF SubSeq(s, 1, Len(pat)) = pat
       THEN rep \o replaceAll(SubSeq(s, Len(pat) + 1, Len(s)), pat, rep)
       ELSE <<Head(s)>> \o replaceAll(Tail(s), pat, rep)

(***************************************************************************)
(* The streaming insertion writer.  w = [doc, cursor, editor,              *)
(* streamInsertPosition, lastContentLength]: the document and cursor, whether*)
(* the workspace has an active editor, and the writer fields of the plugin. *)
(***************************************************************************)
Editor(w) == [doc |-> w.doc, cursor |-> w.cursor]

openStream_atCursorLine(w, elegantMode) ==
  LET last == lastLine(w.doc)
      atEnd == w.cursor.line >= last
      ed1 == IF atEnd
             THEN replaceRange(Editor(w), NL, [line |-> last, ch |-> Len(w.doc[last + 1])])
             ELSE Editor(w)
      pos == IF atEnd THEN [line |-> last + 1, ch |-> 0]
                      ELSE [line |-> w.cursor.line, ch |-> 0]
      separator == IF elegantMode THEN ElegantSeparator ELSE PlainSeparator
      ed2 == replaceRange(ed1, separator, pos)
  IN  [doc |-> ed2.doc, cursor |-> ed2.cursor, editor |-> w.editor,
       streamInsertPosition |-> [line |-> pos.line, ch |-> Len(separator)],
       lastContentLength |-> w.lastContentLength]

\* updateStreamingContent, the lazy open (src/main.ts 451-472)
openStream(w, elegantMode) ==
  LET last == lastLine(w.doc)
      atEnd == w.cursor.line >= last
      ed1 == IF atEnd
             THEN replaceRange(Editor(w), NL, [line |-> last, ch |-> Len(w.doc[last + 1])])
             ELSE Editor(w)
      pos == IF atEnd THEN [line |-> last + 1, ch |-> 0]
                      ELSE [line |-> w.cursor.line + 1, ch |-> 0]
      separator == IF elegantMode THEN ElegantSeparator ELSE PlainSeparator
      ed2 == replaceRange(ed1, separator, pos)
  IN  [doc |-> ed2.doc, cursor |-> ed2.cursor, editor |-> w.editor,
       streamInsertPosition |-> [line |-> pos.line, ch |-> Len(separator)],
       lastContentLength |-> w.lastContentLength]

writeHead_noAdvance(w) == w.streamInsertPosition

\* the position the writer writes at (src/main.ts 475-478, 496-499, 136-139)
writeHead(w) ==
  [line |-> w.streamInsertPosition.line,
   ch |-> w.streamInsertPosition.ch + w.lastContentLength]

processContent_stripsTags(newContent) ==
  replaceAll(replaceAll(newContent, ThoughtOpen, <<>>), ThoughtClose, <<>>)

\* the thought-tag transform (src/main.ts 481-483)
processContent(newContent) ==
  replaceAll(replaceAll(newContent, ThoughtOpen, BracketOpen), ThoughtClose, BracketClose)

updateStreamingContent_strict(w, newContent, elegantMode) ==
  IF ~w.editor \/ w.streamInsertPosition = NoPosition THEN w
  ELSE LET processedContent == processContent(newContent)
           ed == replaceRange(Editor(w), processedContent, writeHead(w))
       IN  [w EXCEPT !.doc = ed.doc, !.cursor = ed.cursor,
                     !.lastContentLength = w.lastContentLength + Len(processedContent)]

updateStreamingContent_noEditorCheck(w, newContent, elegantMode) ==
  LET w1 == IF w.streamInsertPosition = NoPosition THEN openStream(w, elegantMode) ELSE w
      processedContent == processContent(newContent)
      ed == replaceRange(Editor(w1), processedContent, writeHead(w1))
  IN  [w1 EXCEPT !.doc = ed.doc, !.cursor = ed.cursor,
                 !.lastContentLength = w1.lastContentLength + Len(processedContent)]

\* updateStreamingContent (src/main.ts 447-488)
updateStreamingContent(w, newContent, elegantMode) ==
  IF ~w.editor THEN w
  ELSE
  LET w1 == IF w.streamInsertPosition = NoPosition THEN openStream(w, elegantMode) ELSE w
      processedContent == processContent(newContent)
      ed == replaceRange(Editor(w1), processedContent, writeHead(w1))
  IN  [w1 EXCEPT !.doc = ed.doc, !.cursor = ed.cursor,
                 !.lastContentLength = w1.lastContentLength + Len(processedContent)]

\* the text finalizeStreamingContent writes (src/main.ts 501-530)
finalContent(enableTimestamp, addedSeparator) ==
  EndMarker
    \o (IF enableTimestamp THEN NL \o Timestamp ELSE <<>>)
    \o (IF addedSeparator THEN ContinueText ELSE <<>>)

\* finalizeStreamingContent (src/main.ts 491-533)
finalizeStreamingContent(w, enableTimestamp, addedSeparator) ==
  IF ~w.editor \/ w.streamInsertPosition = NoPosition THEN w
  ELSE LET ed == replaceRange(Editor(w), finalContent(enableTimestamp, addedSeparator),
                              writeHead(w))
       IN  [w EXCEPT !.doc = ed.doc, !.cursor = ed.cursor]

\* the document write of interruptAI (src/main.ts 134-141)
writeInterruption(w) ==
  IF ~w.editor \/ w.streamInsertPosition = NoPosition THEN w
  ELSE LET ed == replaceRange(Editor(w), InterruptText, writeHead(w))
       IN  [w EXCEPT !.doc = ed.doc, !.cursor = ed.cursor]

autoAddSeparatorIfNeeded_looksOneLineUp(ed, currentLine) ==
  LET startLine == Max(0, currentLine - 1)
      hasSeparator == \E i \in startLine..(currentLine - 1) : trim(getLine(ed.doc, i)) = AiMark
  IN  IF ~hasSeparator
      THEN [ed |-> replaceRange(ed, AutoSeparator, [line |-> currentLine, ch |-> 0]),
            line |-> currentLine + 1, added |-> TRUE]
      ELSE [ed |-> ed, line |-> currentLine, added |-> FALSE]

\* autoAddSeparatorIfNeeded (src/main.ts 545-568): the editor after the call,
\* the line number returned and whether a separator was added
autoAddSeparatorIfNeeded(ed, currentLine) ==
  LET startLine == Max(0, currentLine - 5)
      hasSeparator == \E i \in startLine..(currentLine - 1) : trim(getLine(ed.doc, i)) = AiMark
  IN  IF ~hasSeparator
      THEN [ed |-> replaceRange(ed, AutoSeparator, [line |-> currentLine, ch |-> 0]),
            line |-> currentLine + 1, added |-> TRUE]
      ELSE [ed |-> ed, line |-> currentLine, added |-> FALSE]

(***************************************************************************)
(* Scanner specification: every document, start line and budget within     *)
(* the bounds, then one call of getContextMessages.                        *)
(***************************************************************************)
\* the document of scenario C: "=== Q1", "-----", "A1", "= =", "=-=", "=== Q2",
\* scanned from line 5 with budget 10
ScenarioC ==
  [doc |-> << <<"=", "=", "=", " ", "Q", "1">>, DashMark, <<"A", "1">>, AiMark, TermMark,
              <<"=", "=", "=", " ", "Q", "2">> >>,
   line |-> 5, contextLines |-> 10]

ScanInitState ==
  /\ \/ /\ doc \in ScanDocs
        /\ cursor \in {[line |-> l, ch |-> 0] : l \in 0..(MaxLines - 1)}
        /\ cursor.line < Len(doc)
        /\ settings \in {[DefaultSettings EXCEPT !.contextLines = k] : k \in 0..MaxBudget}
     \/ /\ doc = ScenarioC.doc
        /\ cursor = [line |-> ScenarioC.line, ch |-> 0]
        /\ settings = [DefaultSettings EXCEPT !.contextLines = ScenarioC.contextLines]
  /\ activeEditor = TRUE
  /\ PluginInit
  /\ messages = <<>>
  /\ pc = "ready"

Scan ==
  /\ pc = "ready"
  /\ messages' = getContextMessagesOf(activeEditor, doc, cursor.line, settings.contextLines)
  /\ pc' = "scanned"
  /\ UNCHANGED <<editorVars, settings, pluginVars, requestVars>>

SpecScan == ScanInitState /\ [][Scan]_vars

\* a turn without its history field
Turn(m) == [role |-> m.role, content |-> m.content]
Turns(msgs) == [i \in 1..Len(msgs) |-> Turn(msgs[i])]

(***************************************************************************)
(* The Ask AI request life cycle.  A step runs the code between two awaits *)
(* (JavaScript runs each continuation to its next await without           *)
(* interleaving).  Request r owns the AbortController r it creates.        *)
(***************************************************************************)
W == [doc |-> doc, cursor |-> cursor, editor |-> activeEditor,
      streamInsertPosition |-> streamInsertPosition,
      lastContentLength |-> lastContentLength]

SetW(w) ==
  /\ doc' = w.doc
  /\ cursor' = w.cursor
  /\ streamInsertPosition' = w.streamInsertPosition
  /\ lastContentLength' = w.lastContentLength
  /\ UNCHANGED activeEditor

\* content deltas the model's server sends
SysChunks == {<<"a">>}
Content(c) == [kind |-> "content", content |-> c]      \* data: {..delta.content..}
Done == [kind |-> "done", content |-> <<>>]            \* data: [DONE]
\* the data lines decoded from one reader.read()
ReadValues ==
  {<<Content(c)>> : c \in SysChunks} \cup {<<Done>>}
    \cup {<<Content(c), Done>> : c \in SysChunks}

\* documents and cursors Ask AI is first invoked on
SysStarts ==
  { [doc |-> << <<"q">> >>, cursor |-> [line |-> 0, ch |-> 1]],
    [doc |-> << <<"q">>, <<"t">> >>, cursor |-> [line |-> 0, ch |-> 1]],
    [doc |-> << AiMark, <<"=", "=", "=", "q">>, <<>> >>, cursor |-> [line |-> 1, ch |-> 4]] }

\* settings of a run: the defaults with a key, the defaults without one
\* (apiKey: ""), and every option switched off
SysSettings ==
  { [DefaultSettings EXCEPT !.contextLines = 1],
    [DefaultSettings EXCEPT !.apiKey = FALSE],
    [apiKey |-> TRUE, contextLines |-> 0, elegantMode |-> FALSE,
     enableTimestamp |-> FALSE, autoAddSeparator |-> FALSE] }

Init ==
  /\ \E s \in SysStarts : doc = s.doc /\ cursor = s.cursor
  /\ activeEditor = TRUE
  /\ settings \in SysSettings
  /\ PluginInit
  /\ messages = <<>>
  /\ pc = "plugin"

\* the for loop over the data lines of one read (src/main.ts 261-283);
\* st = [w, result, returned, calls]
RECURSIVE ProcessLines(_, _)
ProcessLines(items, st) ==
  IF items = <<>> \/ st.returned THEN st
  ELSE IF Head(items).kind = "done"
       THEN [st EXCEPT
               !.w = finalizeStreamingContent(st.w, settings.enableTimestamp,
                                              addedSeparatorInCurrentSession),
               !.returned = TRUE,
               !.calls = Append(st.calls, [op |-> "finalize",
                                           idle |-> st.w.streamInsertPosition = NoPosition])]
       ELSE ProcessLines(Tail(items),
              [st EXCEPT
                 !.w = updateStreamingContent(st.w, Head(items).content, settings.elegantMode),
                 !.result = st.result \o Head(items).content,
                 !.calls = Append(st.calls, [op |-> "append",
                                            idle |-> st.w.streamInsertPosition = NoPosition])])

\* history: what request r did after an interrupt command met it reading
After(r, cs) ==
  IF r \in hist.intr
  THEN [hist EXCEPT
          !.lateChunk = IF \E i \in 1..Len(cs) : cs[i].op = "append" THEN @ \cup {r} ELSE @,
          !.lateEnd = IF \E i \in 1..Len(cs) : cs[i].op = "finalize" /\ ~cs[i].idle
                      THEN @ \cup {r} ELSE @]
  ELSE hist

\* the editorCallback from the key check to the scan made by generateResponse
\* (src/main.ts 63-75, 155-165): the edited document, the addedSeparator
\* flag and the transcript
AskPrepared ==
  LET auto == IF settings.autoAddSeparator
              THEN autoAddSeparatorIfNeeded([doc |-> doc, cursor |-> cursor], cursor.line)
              ELSE [ed |-> [doc |-> doc, cursor |-> cursor],
                    line |-> cursor.line, added |-> FALSE]
      ed2 == IF ~startsWith(getLine(auto.ed.doc, auto.line), UserMark)
             THEN replaceRange(auto.ed, UserMark, [line |-> auto.line, ch |-> 0])
             ELSE auto.ed
  IN  [doc |-> ed2.doc, cursor |-> ed2.cursor, added |-> auto.added,
       msgs |-> getContextMessagesOf(activeEditor, ed2.doc, ed2.cursor.line,
                                     settings.contextLines)]

\* the state generateResponse leaves for request r when it first suspends
StartResponse(r, at) ==
  LET p == AskPrepared
  IN  /\ doc' = p.doc
      /\ cursor' = p.cursor
      /\ UNCHANGED activeEditor
      /\ addedSeparatorInCurrentSession' = p.added
      /\ streamInsertPosition' = NoPosition
      /\ lastContentLength' = 0
      /\ isStreaming' = TRUE
      /\ currentAbortController' = r
      /\ messages' = p.msgs
      /\ req' = [req EXCEPT ![r].pc = at,
                            ![r].signal = IF at = "read" THEN r ELSE @,
                            ![r].sent = Turns(p.msgs)]

AskAI_noKeyCheck(r) ==
  /\ pc = "plugin"
  /\ activeEditor
  /\ req[r].pc = "idle"
  /\ IF r = 1 THEN TRUE ELSE req[r - 1].pc # "idle"
  /\ calls' = <<>>
  /\ UNCHANGED <<settings, aborted, hist, pc>>
  /\ StartResponse(r, "clip")

\* the ask-ai editorCallback up to the first suspension, the await of
\* clipboard.writeText in generateResponse (src/main.ts 52-78, 111-116, 155-175)
AskAI(r) ==
  /\ pc = "plugin"
  /\ activeEditor
  /\ req[r].pc = "idle"
  /\ IF r = 1 THEN TRUE ELSE req[r - 1].pc # "idle"
  /\ calls' = <<>>
  /\ UNCHANGED <<settings, aborted, hist, pc>>
  /\ IF ~settings.apiKey
     THEN /\ req' = [req EXCEPT ![r].pc = "done"]
          /\ UNCHANGED <<editorVars, pluginVars, messages>>
     ELSE StartResponse(r, "clip")

\* an exception leaves generateResponse outside its try block and passes the
\* catch of callOpenAI (src/main.ts 118-123) and of the editorCallback (80-83)
Throw(r) ==
  /\ isStreaming' = FALSE
  /\ req' = [req EXCEPT ![r].pc = "failed"]

\* clipboard.writeText resolved: build the fetch options and call fetch
\* (src/main.ts 175-227); reading .signal of a null controller throws
ClipboardDone(r) ==
  /\ pc = "plugin"
  /\ req[r].pc = "clip"
  /\ calls' = <<>>
  /\ IF currentAbortController = NoController
     THEN Throw(r)
     ELSE /\ req' = [req EXCEPT ![r].pc = "fetch", ![r].signal = currentAbortController]
          /\ UNCHANGED isStreaming
  /\ UNCHANGED <<editorVars, settings, addedSeparatorInCurrentSession, streamInsertPosition,
                 lastContentLength, currentAbortController, aborted, hist, messages, pc>>

\* clipboard.writeText rejected (src/main.ts 175)
ClipboardReject(r) ==
  /\ pc = "plugin"
  /\ req[r].pc = "clip"
  /\ calls' = <<>>
  /\ Throw(r)
  /\ UNCHANGED <<editorVars, settings, addedSeparatorInCurrentSession, streamInsertPosition,
                 lastContentLength, currentAbortController, aborted, hist, messages, pc>>

\* the finally block of generateResponse (src/main.ts 293-299)
Finally ==
  /\ isStreaming' = FALSE
  /\ currentAbortController' = NoController

\* fetch resolved with a body: enter the read loop (src/main.ts 227-248)
FetchResolve(r) ==
  /\ pc = "plugin"
  /\ req[r].pc = "fetch"
  /\ req[r].signal \notin aborted
  /\ calls' = <<>>
  /\ IF currentAbortController # NoController /\ currentAbortController \in aborted
     THEN /\ Finally
          /\ req' = [req EXCEPT ![r].pc = "done"]
     ELSE /\ req' = [req EXCEPT ![r].pc = "read"]
          /\ UNCHANGED <<isStreaming, currentAbortController>>
  /\ UNCHANGED <<editorVars, settings, addedSeparatorInCurrentSession, streamInsertPosition,
                 lastContentLength, aborted, hist, messages, pc>>

\* fetch rejected (network failure, or AbortError when its signal is
\* aborted) or resolved without a body (src/main.ts 227-232)
FetchReject(r) ==
  /\ pc = "plugin"
  /\ req[r].pc = "fetch"
  /\ calls' = <<>>
  /\ Throw(r)
  /\ UNCHANGED <<editorVars, settings, addedSeparatorInCurrentSession, streamInsertPosition,
                 lastContentLength, currentAbortController, aborted, hist, messages, pc>>

\* reader.read() resolved with bytes: one pass of the while loop
\* (src/main.ts 242-284, 293-299)
Read(r, val) ==
  /\ pc = "plugin"
  /\ req[r].pc = "read"
  /\ req[r].signal \notin aborted
  /\ req[r].reads < MaxReads
  /\ LET st == ProcessLines(val, [w |-> W, result |-> req[r].result,
                                  returned |-> FALSE, calls |-> <<>>])
         stop == st.returned
                 \/ (currentAbortController # NoController /\ currentAbortController \in aborted)
     IN  /\ SetW(st.w)
         /\ calls' = st.calls
         /\ hist' = After(r, st.calls)
         /\ req' = [req EXCEPT ![r].result = st.result,
                               ![r].reads = @ + 1,
                               ![r].wrote = @ \/ (activeEditor /\ st.result # req[r].result),
                               ![r].pc = IF stop THEN "done" ELSE "read"]
         /\ IF stop THEN Finally ELSE UNCHANGED <<isStreaming, currentAbortController>>
  /\ UNCHANGED <<settings, addedSeparatorInCurrentSession, aborted, messages, pc>>

\* reader.read() resolved with done (src/main.ts 249-256, 293-301)
ReadDone(r) ==
  /\ pc = "plugin"
  /\ req[r].pc = "read"
  /\ req[r].signal \notin aborted
  /\ SetW(finalizeStreamingContent(W, settings.enableTimestamp, addedSeparatorInCurrentSession))
  /\ calls' = <<[op |-> "finalize", idle |-> streamInsertPosition = NoPosition]>>
  /\ hist' = After(r, calls')
  /\ Finally
  /\ req' = [req EXCEPT ![r].pc = "done"]
  /\ UNCHANGED <<settings, addedSeparatorInCurrentSession, aborted, messages, pc>>

\* reader.read() rejected with a transport error: rethrown by the catch
\* (src/main.ts 285-299), then the catch of callOpenAI
ReadError(r) ==
  /\ pc = "plugin"
  /\ req[r].pc = "read"
  /\ req[r].signal \notin aborted
  /\ calls' = <<>>
  /\ Finally
  /\ req' = [req EXCEPT ![r].pc = "failed"]
  /\ UNCHANGED <<editorVars, settings, addedSeparatorInCurrentSession, streamInsertPosition,
                 lastContentLength, aborted, hist, messages, pc>>

\* reader.read() rejected with AbortError after its signal was aborted
\* (src/main.ts 285-291, 293-299)
ReadAbort(r) ==
  /\ pc = "plugin"
  /\ req[r].pc = "read"
  /\ req[r].signal \in aborted
  /\ calls' = <<>>
  /\ Finally
  /\ req' = [req EXCEPT ![r].pc = "done"]
  /\ UNCHANGED <<editorVars, settings, addedSeparatorInCurrentSession, streamInsertPosition,
                 lastContentLength, aborted, hist, messages, pc>>

\* the interrupt-ai command: interruptAI (src/main.ts 127-153)
Interrupt ==
  /\ pc = "plugin"
  /\ \E r \in Requests : req[r].pc \in {"clip", "fetch", "read"}
  /\ LET reading == {r \in Requests : req[r].pc = "read" /\ req[r].signal \notin aborted}
         taken == isStreaming /\ currentAbortController # NoController
         tagged == taken /\ activeEditor /\ streamInsertPosition # NoPosition
     IN  /\ IF taken
            THEN /\ aborted' = aborted \cup {currentAbortController}
                 /\ SetW(writeInterruption(W))
                 /\ isStreaming' = FALSE
                 /\ currentAbortController' = NoController
            ELSE UNCHANGED <<aborted, editorVars, streamInsertPosition, lastContentLength,
                             isStreaming, currentAbortController>>
         /\ hist' = [hist EXCEPT
                       !.intr = @ \cup reading,
                       !.noTag = @ \cup {r \in reading :
                                            activeEditor /\ req[r].wrote /\ ~tagged}]
  /\ calls' = <<>>
  /\ UNCHANGED <<settings, addedSeparatorInCurrentSession, req, messages, pc>>

\* the user closes the pane of the document while a response is in flight,
\* or focuses it again: app.workspace.activeEditor becomes undefined, or the
\* document's editor
SwitchEditor ==
  /\ pc = "plugin"
  /\ \E r \in Requests : req[r].pc \in {"clip", "fetch", "read"}
  /\ hist.edits < MaxEdits
  /\ activeEditor' = ~activeEditor
  /\ hist' = [hist EXCEPT !.edits = @ + 1]
  /\ calls' = <<>>
  /\ UNCHANGED <<doc, cursor, settings, pluginVars, aborted, req, messages, pc>>

Next ==
  \/ \E r \in Requests : AskAI(r)
  \/ \E r \in Requests : ClipboardDone(r)
  \/ \E r \in Requests : ClipboardReject(r)
  \/ \E r \in Requests : FetchResolve(r)
  \/ \E r \in Requests : FetchReject(r)
  \/ \E r \in Requests : \E val \in ReadValues : Read(r, val)
  \/ \E r \in Requests : ReadDone(r)
  \/ \E r \in Requests : ReadError(r)
  \/ \E r \in Requests : ReadAbort(r)
  \/ Interrupt
  \/ SwitchEditor

Spec == Init /\ [][Next]_vars

(***************************************************************************)
(* Writer specification: one response without failure.  Ask AI on a prompt  *)
(* line, the content chunks of the stream, the end of the stream or the    *)
(* interrupt command, then a scan started from the written end marker or   *)
(* from a line below it.                                                   *)
(***************************************************************************)
WriterChunks ==
  { <<"a">>, <<" ", "b">>, <<"\n">>, TermMark }

WriterStarts ==
  { [doc |-> << <<"q">> >>, cursor |-> [line |-> 0, ch |-> 1]],
    [doc |-> << <<"q">>, <<"t">> >>, cursor |-> [line |-> 0, ch |-> 1]],
    [doc |-> << <<"x">>, AiMark, <<>>, <<"=", "=", "=", "q">>, <<>> >>,
     cursor |-> [line |-> 3, ch |-> 4]] }

WriterInit ==
  /\ \E s \in WriterStarts : doc = s.doc /\ cursor = s.cursor
  /\ activeEditor = TRUE
  /\ settings \in [apiKey : {TRUE}, contextLines : 0..MaxBudget, elegantMode : BOOLEAN,
                   enableTimestamp : BOOLEAN, autoAddSeparator : BOOLEAN]
  /\ PluginInit
  /\ messages = <<>>
  /\ pc = "start"

\* Ask AI (the first invocation) up to the read loop
WAsk ==
  /\ pc = "start"
  /\ activeEditor
  /\ pc' = "streaming"
  /\ StartResponse(1, "read")
  /\ calls' = <<>>
  /\ UNCHANGED <<settings, aborted, hist>>

\* one content chunk of the stream (src/main.ts 271-278)
WChunk(c) ==
  /\ pc = "streaming"
  /\ req[1].reads < MaxChunks
  /\ SetW(updateStreamingContent(W, c, settings.elegantMode))
  /\ calls' = <<[op |-> "append", idle |-> streamInsertPosition = NoPosition]>>
  /\ req' = [req EXCEPT ![1].result = @ \o c, ![1].reads = @ + 1]
  /\ UNCHANGED <<settings, addedSeparatorInCurrentSession, currentAbortController,
                 isStreaming, aborted, hist, messages, pc>>

\* the end of the stream (src/main.ts 249-256, 293-301)
WDone ==
  /\ pc = "streaming"
  /\ SetW(finalizeStreamingContent(W, settings.enableTimestamp, addedSeparatorInCurrentSession))
  /\ calls' = <<[op |-> "finalize", idle |-> streamInsertPosition = NoPosition]>>
  /\ Finally
  /\ req' = [req EXCEPT ![1].pc = "done"]
  /\ pc' = "finalized"
  /\ UNCHANGED <<settings, addedSeparatorInCurrentSession, aborted, hist, messages>>

\* the line of the end marker the writer wrote at its write head
EndMarkerLine == offsetToPos(doc, posToOffset(doc, writeHead(W)) + 1).line

\* the interrupt command while the stream is consumed (src/main.ts 127-153)
WInterrupt ==
  /\ pc = "streaming"
  /\ isStreaming /\ currentAbortController # NoController
  /\ aborted' = aborted \cup {currentAbortController}
  /\ SetW(writeInterruption(W))
  /\ isStreaming' = FALSE
  /\ currentAbortController' = NoController
  /\ hist' = [hist EXCEPT !.intr = @ \cup {1}]
  /\ calls' = <<>>
  /\ pc' = "interrupted"
  /\ UNCHANGED <<settings, addedSeparatorInCurrentSession, req, messages>>

\* the user puts the cursor on line l, the line of the written '= =' or a
\* line below it, and the scan runs from there
WRescan(l) ==
  /\ pc \in {"finalized", "interrupted"}
  /\ streamInsertPosition # NoPosition
  /\ l >= EndMarkerLine + (IF pc = "interrupted" THEN 1 ELSE 0)
  /\ cursor' = [line |-> l, ch |-> 0]
  /\ messages' = getContextMessagesOf(activeEditor, doc, l, settings.contextLines)
  /\ pc' = IF pc = "interrupted" THEN "rescannedInterrupted" ELSE "rescanned"
  /\ calls' = <<>>
  /\ UNCHANGED <<doc, activeEditor, settings, pluginVars, aborted, req, hist>>

WriterNext ==
  \/ WAsk
  \/ \E c \in WriterChunks : WChunk(c)
  \/ WDone
  \/ WInterrupt
  \/ \E l \in 0..lastLine(doc) : WRescan(l)

SpecWriter == WriterInit /\ [][WriterNext]_vars

(***************************************************************************)
(* Writer specification with a user at the keyboard: one response whose    *)
(* chunks interleave with edits the user makes to the same document while  *)
(* the stream is open (the plugin writes through the live activeEditor).   *)
(***************************************************************************)
EditChunks == { <<"a">>, <<"\n">> }

EditInit ==
  /\ \E s \in WriterStarts : doc = s.doc /\ cursor = s.cursor
  /\ activeEditor = TRUE
  /\ settings \in [apiKey : {TRUE}, contextLines : {1}, elegantMode : BOOLEAN,
                   enableTimestamp : BOOLEAN, autoAddSeparator : BOOLEAN]
  /\ PluginInit
  /\ messages = <<>>
  /\ pc = "start"

\* the line of the '-----' separator of the open block
BlockLine == CHOOSE l \in 0..lastLine(doc) : getLine(doc, l) = DashMark

UserEdit ==
  /\ pc = "streaming"
  /\ streamInsertPosition # NoPosition
  /\ hist.edits < MaxEdits
  /\ hist' = [hist EXCEPT !.edits = @ + 1]
  /\ calls' = <<>>
  /\ UNCHANGED <<activeEditor, settings, pluginVars, aborted, req, messages, pc>>

\* the user types a new line "u" as line l: above the open block, or as the
\* last line of the document
UserInsertLine(l) ==
  /\ UserEdit
  /\ l <= BlockLine \/ l = Len(doc)
  /\ doc' = SubSeq(doc, 1, l) \o << <<"u">> >> \o SubSeq(doc, l + 1, Len(doc))
  /\ cursor' = [line |-> l, ch |-> 1]

\* the user deletes line l above the open block
UserDeleteLine(l) ==
  /\ UserEdit
  /\ l < BlockLine
  /\ doc' = SubSeq(doc, 1, l) \o SubSeq(doc, l + 2, Len(doc))
  /\ cursor' = [line |-> l, ch |-> 0]

\* the user puts the editing cursor on line l
UserMoveCursor(l) ==
  /\ UserEdit
  /\ l # cursor.line
  /\ cursor' = [line |-> l, ch |-> 0]
  /\ UNCHANGED doc

EditNext ==
  \/ WAsk
  \/ \E c \in EditChunks : WChunk(c)
  \/ WDone
  \/ \E l \in 0..Len(doc) : UserInsertLine(l)
  \/ \E l \in 0..lastLine(doc) : UserDeleteLine(l)
  \/ \E l \in 0..lastLine(doc) : UserMoveCursor(l)

SpecEdit == EditInit /\ [][EditNext]_vars

(***************************************************************************)
(* The three editor operations called one at a time, with and without an   *)
(* active editor, on an idle and on an open writer: getContextMessages,    *)
(* updateStreamingContent and finalizeStreamingContent.                    *)
(***************************************************************************)
CallsInit ==
  /\ \E s \in WriterStarts : doc = s.doc /\ cursor = s.cursor
  /\ activeEditor \in BOOLEAN
  /\ settings \in [apiKey : {TRUE}, contextLines : {1}, elegantMode : BOOLEAN,
                   enableTimestamp : BOOLEAN, autoAddSeparator : {FALSE}]
  /\ PluginInit
  /\ messages = <<>>
  /\ pc = "calls"

\* one more call of an operation by the response numbered 1
Called(op) ==
  /\ pc = "calls"
  /\ req[1].reads < MaxChunks
  /\ calls' = <<[op |-> op, idle |-> streamInsertPosition = NoPosition]>>
  /\ UNCHANGED <<settings, addedSeparatorInCurrentSession, currentAbortController,
                 isStreaming, aborted, hist, pc>>

CallScan ==
  /\ Called("scan")
  /\ messages' = getContextMessagesOf(activeEditor, doc, cursor.line, settings.contextLines)
  /\ req' = [req EXCEPT ![1].reads = @ + 1]
  /\ UNCHANGED <<editorVars, streamInsertPosition, lastContentLength>>

CallAppend(c) ==
  /\ Called("append")
  /\ SetW(updateStreamingContent(W, c, settings.elegantMode))
  /\ req' = [req EXCEPT ![1].result = @ \o c, ![1].reads = @ + 1]
  /\ UNCHANGED messages

CallFinalize ==
  /\ Called("finalize")
  /\ SetW(finalizeStreamingContent(W, settings.enableTimestamp, addedSeparatorInCurrentSession))
  /\ req' = [req EXCEPT ![1].reads = @ + 1]
  /\ UNCHANGED messages

\* the workspace loses its active editor, or gets the document's editor back
CallSwitchEditor ==
  /\ pc = "calls"
  /\ hist.edits < MaxEdits
  /\ activeEditor' = ~activeEditor
  /\ hist' = [hist EXCEPT !.edits = @ + 1]
  /\ calls' = <<>>
  /\ UNCHANGED <<doc, cursor, settings, pluginVars, aborted, req, messages, pc>>

CallsNext ==
  \/ CallScan
  \/ \E c \in EditChunks : CallAppend(c)
  \/ CallFinalize
  \/ CallSwitchEditor

SpecCalls == CallsInit /\ [][CallsNext]_vars

(***************************************************************************)
(* Scanner specification for single unusual lines: documents made of a few *)
(* ordinary lines and one line that carries a marker in an unusual place,  *)
(* then one call of getContextMessages.                                    *)
(***************************************************************************)
BaseLines ==
  { UserMark, AiMark, DashMark, <<"a">>, <<"=", "=", "=", "q">> }

UnusualLines ==
  { <<"a", "=", "=", "=", "b">>,               \* a===b  '===' inside the line
    <<"a", "=", " ", "=", "b">>,               \* a= =b  '= =' inside the line
    <<"a", "=", "-", "=">>,                    \* a=-=   '=-=' not at the start
    <<"x", "x", "x", "x">>,                    \* xxxx
    <<"X", "X", "X", "X", "X">>,               \* XXXXX
    <<"a", "=", "=", "=">>,                    \* a===   '===' at the end
    <<"a", "=", " ", "=">>,                    \* a= =   '= =' at the end
    <<"=", "=", "=", "h", "=", "=", "=">>,     \* ===h===
    <<"=", " ", "=", "h", "=", " ", "=">>,     \* = =h= =
    <<" ", "-", "-", "-", "-", "-">>,          \* ' -----'  indented separator
    <<"-", "-", "-", "-", "-", "t">>,          \* -----t    dashes, then text
    <<"-", "-", "-", "-", "-", "-">>,          \* ------    six dashes
    <<" ", "=", "=", "=", "q">>,               \* ' ===q'   indented inline user
    <<" ", "=", " ", "=", "r">> }              \* ' = =r'   indented inline assistant

UnusualDocs ==
  UNION { { SubSeq(b, 1, p) \o <<x>> \o SubSeq(b, p + 1, Len(b)) :
              x \in UnusualLines, p \in 0..Len(b) } :
          b \in SeqsUpTo(BaseLines, MaxBaseLines) }

LinesInit ==
  /\ doc \in UnusualDocs
  /\ cursor \in {[line |-> l, ch |-> 0] : l \in 0..MaxBaseLines}
  /\ cursor.line < Len(doc)
  /\ activeEditor = TRUE
  /\ settings \in {[DefaultSettings EXCEPT !.contextLines = k] : k \in 0..MaxBudget}
  /\ PluginInit
  /\ messages = <<>>
  /\ pc = "ready"

SpecLines == LinesInit /\ [][Scan]_vars

(***************************************************************************)
(* Writer specification for thought tags: one response whose chunks carry  *)
(* whole thought tags and the two halves of a tag split between chunks.    *)
(***************************************************************************)
TagChunks ==
  { <<"a">>,
    ThoughtOpen,                               \* <thought>
    ThoughtClose,                              \* </thought>
    <<"<", "t", "h", "o">>,                    \* <tho     first half of a tag
    <<"u", "g", "h", "t", ">">> }              \* ught>    second half of a tag

TagsInit ==
  /\ \E s \in WriterStarts : doc = s.doc /\ cursor = s.cursor /\ Len(s.doc) <= 2
  /\ activeEditor = TRUE
  /\ settings \in [apiKey : {TRUE}, contextLines : {1}, elegantMode : BOOLEAN,
                   enableTimestamp : {FALSE}, autoAddSeparator : {FALSE}]
  /\ PluginInit
  /\ messages = <<>>
  /\ pc = "start"

TagsNext ==
  \/ WAsk
  \/ \E c \in TagChunks : WChunk(c)
  \/ WDone

SpecTags == TagsInit /\ [][TagsNext]_vars

(***************************************************************************)
(* Ask AI specification: one response on a prompt line with up to MaxAbove *)
(* lines above it, at most one of them a '= =' line, with the cursor at    *)
(* the start or inside the prompt line.                                    *)
(***************************************************************************)
AskPrompts == { <<"q">>, <<"=", "=", "=", "q">> }

AskSeparators == { AiMark, <<" ", "=", " ", "=">> }

\* n lines of text
TextLines(n) == [i \in 1..n |-> <<"t">>]

AskDocs ==
  UNION { { TextLines(n) \o <<prompt>> : prompt \in AskPrompts }
          \cup { [TextLines(n) EXCEPT ![p] = sep] \o <<prompt>> :
                   prompt \in AskPrompts, sep \in AskSeparators, p \in 1..n }
          : n \in 0..MaxAbove }

AskInit ==
  /\ doc \in AskDocs
  /\ cursor \in {[line |-> Len(doc) - 1, ch |-> c] : c \in 0..1}
  /\ activeEditor = TRUE
  /\ settings \in [apiKey : {TRUE}, contextLines : 0..1, elegantMode : {FALSE},
                   enableTimestamp : {FALSE}, autoAddSeparator : BOOLEAN]
  /\ PluginInit
  /\ messages = <<>>
  /\ pc = "start"

AskNext ==
  \/ WAsk
  \/ \E c \in SysChunks : WChunk(c)
  \/ WDone

SpecAsk == AskInit /\ [][AskNext]_vars

(***************************************************************************)
(* Framing specification: one response whose body is a server-sent event   *)
(* text, delivered by reader.read() in pieces cut at any character.  The   *)
(* JSON text of a chunk object is abbreviated to {content}: as with JSON,  *)
(* no proper prefix and no proper suffix of it parses.                     *)
(***************************************************************************)
MaxEvents == 2

FramingDeltas == { <<"a">>, <<"b">> }
DataPrefix == <<"d", "a", "t", "a", ":", " ">>              \* 'data: '
DoneData == <<"[", "D", "O", "N", "E", "]">>                \* '[DONE]'

\* the body the server sends for a sequence of content deltas
RECURSIVE SseBody(_)
SseBody(ds) ==
  IF ds = <<>> THEN DataPrefix \o DoneData \o NL \o NL
  ELSE DataPrefix \o <<"{">> \o Head(ds) \o <<"}">> \o NL \o NL \o SseBody(Tail(ds))

\* JSON.parse(data) and parsed.choices?.[0]?.delta?.content
\* (src/main.ts 272-273): ok is FALSE where JSON.parse throws
parseContent(data) ==
  IF /\ Len(data) >= 2
     /\ data[1] = "{"
     /\ data[Len(data)] = "}"
     /\ \A i \in 2..(Len(data) - 1) : data[i] \notin {"{", "}"}
  THEN [ok |-> TRUE, content |-> SubSeq(data, 2, Len(data) - 1)]
  ELSE [ok |-> FALSE, content |-> <<>>]

\* the data lines the for loop acts on, of the lines of one decoded read
\* (src/main.ts 261-282): 'data: ' lines that are [DONE] or parse to a
\* non-empty content
RECURSIVE DataLinesOf(_)
DataLinesOf(lines) ==
  IF lines = <<>> THEN <<>>
  ELSE LET line == Head(lines)
           data == SubSeq(line, 7, Len(line))
       IN  IF ~startsWith(line, DataPrefix) THEN DataLinesOf(Tail(lines))
           ELSE IF data = DoneData THEN <<Done>> \o DataLinesOf(Tail(lines))
           ELSE IF parseContent(data).ok /\ parseContent(data).content # <<>>
                THEN <<Content(parseContent(data).content)>> \o DataLinesOf(Tail(lines))
                ELSE DataLinesOf(Tail(lines))

\* decoder.decode(value) and chunk.split('\n') (src/main.ts 258-259)
DataLines(chunk) == DataLinesOf(splitLines(chunk))

FramingInit ==
  /\ doc = << <<"q">> >>
  /\ cursor = [line |-> 0, ch |-> 1]
  /\ activeEditor = TRUE
  /\ settings = [apiKey |-> TRUE, contextLines |-> 1, elegantMode |-> FALSE,
                 enableTimestamp |-> FALSE, autoAddSeparator |-> FALSE]
  /\ addedSeparatorInCurrentSession = FALSE
  /\ streamInsertPosition = NoPosition
  /\ lastContentLength = 0
  /\ currentAbortController = NoController
  /\ isStreaming = FALSE
  /\ aborted = {}
  /\ \E ds \in SeqsUpTo(FramingDeltas, MaxEvents) :
       req = [r \in Requests |->
               [pc |-> "idle", signal |-> NoController, result |-> <<>>, reads |-> 0,
                sent |-> <<>>, wrote |-> FALSE,
                deltas |-> IF r = 1 THEN ds ELSE <<>>, offset |-> 0]]
  /\ calls = <<>>
  /\ hist = [intr |-> {}, lateChunk |-> {}, lateEnd |-> {}, noTag |-> {}, edits |-> 0]
  /\ messages = <<>>
  /\ pc = "start"

\* reader.read() resolved with the next n characters of the body: one pass
\* of the while loop (src/main.ts 242-284, 293-299)
FRead(n) ==
  /\ pc = "streaming"
  /\ req[1].offset + n <= Len(SseBody(req[1].deltas))
  /\ LET chunk == SubSeq(SseBody(req[1].deltas), req[1].offset + 1, req[1].offset + n)
         st == ProcessLines(DataLines(chunk), [w |-> W, result |-> req[1].result,
                                               returned |-> FALSE, calls |-> <<>>])
     IN  /\ SetW(st.w)
         /\ calls' = st.calls
         /\ req' = [req EXCEPT ![1].result = st.result,
                               ![1].reads = @ + 1,
                               ![1].offset = @ + n,
                               ![1].wrote = @ \/ st.result # req[1].result,
                               ![1].pc = IF st.returned THEN "done" ELSE "read"]
         /\ pc' = IF st.returned THEN "finalized" ELSE pc
         /\ IF st.returned THEN Finally ELSE UNCHANGED <<isStreaming, currentAbortController>>
  /\ UNCHANGED <<settings, addedSeparatorInCurrentSession, aborted, hist, messages>>

\* reader.read() resolved with done after the whole body was read
\* (src/main.ts 249-256, 293-301)
FEnd ==
  /\ req[1].offset = Len(SseBody(req[1].deltas))
  /\ WDone

FramingNext ==
  \/ WAsk
  \/ \E n \in 1..Len(SseBody(req[1].deltas)) : FRead(n)
  \/ FEnd

SpecFraming == FramingInit /\ [][FramingNext]_vars

(***************************************************************************)
(* Scanner specification for the content of one block: a whole-line        *)
(* boundary at the cursor, up to MaxBlockLines content lines above it,     *)
(* blank and empty lines among them, and nothing, a separator or another   *)
(* boundary above those; then one call of getContextMessages.              *)
(***************************************************************************)
BlockContentLines == { <<"a">>, <<"b">>, <<" ">>, <<>> }

BlockTops == { <<>>, <<DashMark>>, <<UserMark>>, <<AiMark>> }

BlockDocs ==
  { top \o body \o <<bottom>> :
      top \in BlockTops,
      body \in SeqsUpTo(BlockContentLines, MaxBlockLines),
      bottom \in {UserMark, AiMark} }

BlocksInit ==
  /\ doc \in BlockDocs
  /\ cursor = [line |-> Len(doc) - 1, ch |-> 0]
  /\ activeEditor = TRUE
  /\ settings \in {[DefaultSettings EXCEPT !.contextLines = k] : k \in 0..MaxBudget}
  /\ PluginInit
  /\ messages = <<>>
  /\ pc = "ready"

SpecBlocks == BlocksInit /\ [][Scan]_vars

(***************************************************************************)
(* Helpers of the scanner properties                                       *)
(***************************************************************************)
\* a line the protocol calls a hard terminator: '=-=' after trimming
IsTermLine(line) == startsWith(trim(line), TermMark)
\* a whole-line block boundary
IsBoundaryLine(line) == trim(line) \in {UserMark, AiMark}
BoundaryRole(line) == IF trim(line) = UserMark THEN "user" ELSE "assistant"
\* a line that carries no marker at all
IsPlainLine(line) ==
  /\ ~includes(line, UserMark) /\ ~includes(line, AiMark)
  /\ ~includes(line, TermMark) /\ ~startsWith(trim(line), DashMark)

Scanned == pc = "scanned"
ScanState == ScanEnd(doc, cursor.line, settings.contextLines)

\* C1: the transcript returned by the backward scan with budget k has at
\* most 2k turns, for every document, start line and budget.
C1_BudgetRespected ==
  Scanned => Len(messages) <= 2 * settings.contextLines

\* C2: with a '=-=' line at index t below the start line, the transcript
\* holds no turn and no content read from a line with index < t: every turn
\* comes from lines above t only, and the transcript is the one the document
\* without its lines 0..t-1 yields.
C2_TerminationAbsolute ==
  Scanned =>
    \A t \in 0..(cursor.line - 1) :
      IsTermLine(doc[t + 1]) =>
        /\ \A j \in 1..Len(messages) : \A l \in messages[j].src : l > t
        /\ Turns(messages) =
             Turns(getContextMessages(SubSeq(doc, t + 1, Len(doc)),
                                      cursor.line - t, settings.contextLines))

C2_Witness ==
  /\ Scanned
  /\ Len(messages) >= 2
  /\ \E t \in 1..(cursor.line - 1) :
       /\ IsTermLine(doc[t + 1])
       /\ \E u \in 0..(t - 1) : doc[u + 1] = <<"=", "=", "=", "q">>

\* the block the scan was collecting when it reached the terminator at line
\* t: plain lines t+1..b-1 closed by the whole-line boundary at line b
OpenBlockAt(t, b) ==
  /\ ScanState.terminatedAt = t
  /\ t + 1 < b /\ b <= cursor.line
  /\ IsBoundaryLine(doc[b + 1])
  /\ \A l \in (t + 1)..(b - 1) : IsPlainLine(doc[l + 1])
  /\ ScanState.collectingLines = (t + 1)..(b - 1)

\* C3 as stated: when the scan reaches a hard terminator while a block is
\* being collected (mode user or assistant, buffer non-empty), the buffer is
\* discarded: its lines are no turn of the transcript.
C3_BufferDiscarded ==
  ( /\ Scanned
    /\ ScanState.terminatedAt >= 0
    /\ ScanState.collectingMode # "none"
    /\ ScanState.collectingContent # <<>> )
  => \A j \in 1..Len(messages) : messages[j].src # ScanState.collectingLines

\* C3 amended: when the scan reaches a hard terminator at line t while the
\* plain lines t+1..b-1 under the whole-line boundary b are being collected,
\* the buffer is flushed after the loop: if it is non-empty after trimming it
\* is the first (oldest) turn of the transcript, with the role of boundary b
\* and the trimmed newline-join of those lines as content; a buffer that is
\* blank after trimming yields no turn.
C3_BufferFlushedAtTerminator ==
  Scanned =>
    \A t \in 0..(cursor.line - 2) : \A b \in (t + 2)..cursor.line :
      OpenBlockAt(t, b) =>
        LET body == trim(joinLines(SubSeq(doc, t + 2, b)))
        IN  IF body # <<>>
            THEN /\ Len(messages) >= 1
                 /\ Turn(messages[1]) = [role |-> BoundaryRole(doc[b + 1]), content |-> body]
                 /\ messages[1].src = (t + 1)..(b - 1)
            ELSE \A j \in 1..Len(messages) : \A l \in messages[j].src : l >= b

C3_Witness ==
  /\ Scanned
  /\ \E t \in 0..(cursor.line - 2) : \E b \in (t + 2)..cursor.line :
       /\ OpenBlockAt(t, b)
       /\ trim(joinLines(SubSeq(doc, t + 2, b))) # <<>>
       /\ Len(messages) >= 2

\* C8: the transcript is in document order: a turn that comes first was read
\* from smaller line indices than every turn that comes later.
C8_DocumentOrder ==
  Scanned =>
    \A i, j \in 1..Len(messages) :
      i < j => \A a \in messages[i].src : \A b \in messages[j].src : a < b

\* a line that emitted both the flushed buffer and its own inline turn
C8_Witness ==
  /\ Scanned
  /\ Len(messages) >= 3
  /\ \E i \in 1..(Len(messages) - 1) :
       /\ \E l \in 0..cursor.line :
            messages[i].src = {l} /\ startsWith(doc[l + 1], UserMark) /\ doc[l + 1] # UserMark
       /\ \E l \in messages[i + 1].src : IsPlainLine(doc[l + 1])

\* C9: no turn of the transcript has empty content after trimming, neither a
\* flushed block buffer nor an inline turn.
C9_NoEmptyTurn ==
  Scanned =>
    \A j \in 1..Len(messages) :
      /\ messages[j].content # <<>>
      /\ trim(messages[j].content) # <<>>

\* a flushed block that held a blank line, next to an inline turn
C9_Witness ==
  /\ Scanned
  /\ \E j \in 1..Len(messages) :
       /\ \E l \in messages[j].src : doc[l + 1] = <<" ">>
       /\ \E l \in messages[j].src : doc[l + 1] = <<"a">>
  /\ \E j \in 1..Len(messages) : \E l \in messages[j].src : ~IsPlainLine(doc[l + 1])

(***************************************************************************)
(* Properties of the request life cycle and of the writer                  *)
(***************************************************************************)
InFlight(r) == req[r].pc \in {"clip", "fetch", "read"}
Quiescent == \A r \in Requests : ~InFlight(r)

\* the document text from the writer's write head on
TextAtHead ==
  LET t == joinLines(doc)
  IN  SubSeq(t, posToOffset(doc, writeHead(W)) + 1, Len(t))

\* C4: when a second response is started while a first stream still has an
\* open insertion cursor, the second start fails and streamInsertPosition,
\* lastContentLength and the abort controller of the first are unchanged.
C4_SingleActiveWriter ==
  [][ \A r \in Requests :
        ( /\ settings.apiKey
          /\ req[r].pc = "idle" /\ req'[r].pc # "idle"
          /\ streamInsertPosition # NoPosition
          /\ \E q \in Requests : req[q].pc = "read" )
        => ( /\ req'[r].pc = "failed"
             /\ streamInsertPosition' = streamInsertPosition
             /\ lastContentLength' = lastContentLength
             /\ currentAbortController' = currentAbortController ) ]_vars

\* C5: once the user interrupts while a stream is being consumed, no chunk
\* of that stream is written afterwards, no normal end marker is written
\* for it afterwards, and a stream that had written content got its
\* interruption tag.
C5_Cancellation ==
  \A r \in hist.intr :
    /\ r \notin hist.lateChunk
    /\ r \notin hist.lateEnd
    /\ r \notin hist.noTag

\* C6: when a stream has failed with a transport error after the writer
\* opened a block and wrote content, then once no response is in flight the
\* block at the write head carries its end marker.
C6_TransportFailureFinalized ==
  ( /\ Quiescent
    /\ streamInsertPosition # NoPosition
    /\ \E r \in Requests : req[r].pc = "failed" /\ req[r].result # <<>> )
  => \/ startsWith(TextAtHead, EndMarker)
     \/ startsWith(TextAtHead, InterruptText)

\* C7: after the chunks c1..cn and a normal finalize, the scan started from
\* the written end marker or below it returns an assistant turn whose
\* content is the trimmed concatenation c1..cn.
C7_RoundTrip ==
  ( /\ pc = "rescanned"
    /\ settings.contextLines >= 1
    /\ trim(req[1].result) # <<>> )
  => \E j \in 1..Len(messages) :
       Turn(messages[j]) = [role |-> "assistant", content |-> trim(req[1].result)]

SeparatorLine ==
  (IF cursor.line >= lastLine(doc) THEN lastLine(doc) + 1 ELSE cursor.line + 1)
    + (IF settings.elegantMode THEN 1 ELSE 0)

HeadClosed ==
  /\ streamInsertPosition # NoPosition
  /\ \/ startsWith(TextAtHead, EndMarker)
     \/ startsWith(TextAtHead, InterruptText)

\* C11: once a block has been finalized (end of stream, [DONE] or
\* interruption wrote its closing text at the write head), a later append
\* for that block writes nothing: the document is unchanged by it, so no text
\* is inserted between the block's last chunk and its end marker.
C11_FinalizeClosesCursor ==
  [][ ( /\ HeadClosed
        /\ streamInsertPosition' = streamInsertPosition
        /\ \E i \in 1..Len(calls') : calls'[i].op = "append" )
      => doc' = doc ]_vars

\* the text this writer has inserted below its separator: lastContentLength
\* characters of the document text from the insertion cursor on
StreamOffset == posToOffset(doc, streamInsertPosition)
WrittenRegion ==
  SubSeq(joinLines(doc), StreamOffset + 1, StreamOffset + lastContentLength)

\* C12: in a single stream with no other edits, after any sequence of
\* appends the text inserted below the '-----' separator is one contiguous
\* region that equals the concatenation of the transformed chunks in the
\* order received (chunks with newlines included), and every append extends
\* that region at its end by the transformed chunk and changes nothing else.
C12_ChunkOrder ==
  [][ ( /\ pc = "streaming"
        /\ req'[1].reads = req[1].reads + 1 )
      => LET chunk == SubSeq(req'[1].result, Len(req[1].result) + 1, Len(req'[1].result))
             before == IF streamInsertPosition = NoPosition THEN <<>> ELSE WrittenRegion
             text == joinLines(doc')
             off == StreamOffset'
         IN  /\ WrittenRegion' = before \o processContent(chunk)
             /\ WrittenRegion' = processContent(req'[1].result)
             /\ endsWith(SubSeq(text, 1, off), PlainSeparator)
             /\ streamInsertPosition # NoPosition =>
                  /\ streamInsertPosition' = streamInsertPosition
                  /\ SubSeq(text, 1, off) = SubSeq(joinLines(doc), 1, StreamOffset)
                  /\ SubSeq(text, off + lastContentLength' + 1, Len(text))
                       = SubSeq(joinLines(doc), StreamOffset + lastContentLength + 1,
                                Len(joinLines(doc))) ]_vars

\* three chunks were written, a newline chunk before the last one
C12_Witness ==
  /\ pc = "streaming"
  /\ req[1].reads >= 3
  /\ includes(req[1].result, <<"\n", "a", " ", "b">>)
  /\ WrittenRegion = req[1].result

\* C13: while a stream is open, a user edit elsewhere in the document
\* (a line inserted or deleted above the open block, the editing cursor
\* moved) between two chunks does not corrupt the stream: after every chunk
\* the text below the '-----' separator is still the chunks written so far,
\* the new chunk directly after the last one.
C13_EditsDoNotCorrupt ==
  ( /\ pc = "streaming"
    /\ streamInsertPosition # NoPosition )
  => includes(joinLines(doc), PlainSeparator \o processContent(req[1].result))

\* C14: for every document, start line and budget the scan returns a
\* transcript of user and assistant turns and stops: the line indices it
\* reads are the start line, then each next lower index once, in strictly
\* decreasing order, none below 0 and none above the start line.
C14_ScanTotal ==
  Scanned =>
    LET reads == ScanState.reads
    IN  /\ \A n \in 1..Len(reads) : reads[n] = cursor.line - (n - 1)
        /\ \A n \in 1..Len(reads) : reads[n] >= 0 /\ reads[n] <= cursor.line
        /\ Len(reads) <= cursor.line + 1
        /\ \A j \in 1..Len(messages) :
             /\ messages[j].role \in {"user", "assistant"}
             /\ messages[j].src \subseteq {reads[n] : n \in 1..Len(reads)}

\* a scan that read down to line 0 of a document with two whole-line
\* boundaries on adjacent lines, starting above the last line
C14_Witness ==
  /\ Scanned
  /\ Len(ScanState.reads) >= 3
  /\ ScanState.reads[Len(ScanState.reads)] = 0
  /\ cursor.line < lastLine(doc)
  /\ \E l \in 1..(Len(doc) - 1) : IsBoundaryLine(doc[l]) /\ IsBoundaryLine(doc[l + 1])

\* C15: with no active editor the scan returns the empty transcript, and an
\* append or a finalize changes neither the document nor the cursor nor any
\* writer field; each call returns normally (the caller goes on).
C15_NoActiveDocument ==
  [][ ( /\ ~activeEditor
        /\ calls' # <<>> )
      => /\ calls'[1].op = "scan" => messages' = <<>>
         /\ doc' = doc /\ cursor' = cursor
         /\ streamInsertPosition' = streamInsertPosition
         /\ lastContentLength' = lastContentLength
         /\ UNCHANGED <<addedSeparatorInCurrentSession, currentAbortController, isStreaming>>
         /\ pc' = pc /\ req'[1].pc = req[1].pc ]_vars

\* a chunk was appended to an open block after the editor went away: the
\* block holds less than the stream delivered
C15_Witness ==
  /\ ~activeEditor
  /\ calls # <<>> /\ calls[1].op = "append"
  /\ streamInsertPosition # NoPosition
  /\ lastContentLength >= 1
  /\ lastContentLength < Len(req[1].result)

\* a line of 4 or more characters, all x or X
IsXLine(line) ==
  LET t == trim(line)
  IN  Len(t) >= 4 /\ \A n \in 1..Len(t) : t[n] \in {"x", "X"}

\* a line that carries no marker at its start or its end and is no
\* terminator (plain content under the classifier rules)
IsContentLine(line) ==
  LET t == trim(line)
  IN  /\ \A m \in {UserMark, AiMark, TermMark, DashMark} :
           ~startsWith(t, m) /\ ~endsWith(t, m)
      /\ ~IsXLine(line)

\* C16: while a collecting mode is open, every plain content line is part
\* of the turn's content: a non-blank content line read above a
\* whole-line boundary b, with only content lines between it and b, is a
\* line of a turn with the role of b, and its text is in that turn's
\* content; this includes lines with '===' or '= =' inside them.
C16_PlainContentVerbatim ==
  Scanned =>
    \A b \in 1..cursor.line : \A i \in 0..(b - 1) :
      ( /\ IsBoundaryLine(doc[b + 1])
        /\ \E n \in 1..Len(ScanState.reads) : ScanState.reads[n] = i
        /\ \A l \in i..(b - 1) : IsContentLine(doc[l + 1])
        /\ trim(doc[i + 1]) # <<>> )
      => \E j \in 1..Len(messages) :
           /\ i \in messages[j].src
           /\ messages[j].role = BoundaryRole(doc[b + 1])
           /\ includes(messages[j].content, trim(doc[i + 1]))

\* C17 as stated: the scan starts strictly above the start line: the line at
\* the cursor contributes no turn, and scenario C yields the empty transcript.
C17_StartsAboveCursor ==
  Scanned =>
    /\ \A j \in 1..Len(messages) : cursor.line \notin messages[j].src
    /\ doc = ScenarioC.doc => messages = <<>>

\* the cursor line is a single-line user prompt
IsPromptLine(line) ==
  /\ startsWith(line, UserMark) /\ ~endsWith(line, UserMark)
  /\ trim(line) # UserMark /\ ~IsTermLine(line)

\* C17 amended: the scan starts at the start line itself: with a budget of
\* at least 1 the line at the cursor is the first line read, and when it is
\* a single-line prompt ('===' followed by text) it is the last turn of the
\* transcript, a user turn with the text after '==='; scenario C yields the
\* one turn {user, "Q2"} and nothing from the terminator at line 4 or above.
C17_StartsAtCursorLine ==
  ( Scanned /\ settings.contextLines >= 1 )
  => /\ ScanState.reads # <<>>
     /\ ScanState.reads[1] = cursor.line
     /\ IsPromptLine(doc[cursor.line + 1]) =>
          /\ messages # <<>>
          /\ Turn(messages[Len(messages)])
               = [role |-> "user", content |-> trim(substring(doc[cursor.line + 1], 3))]
          /\ messages[Len(messages)].src = {cursor.line}
     /\ doc = ScenarioC.doc =>
          Turns(messages) = <<[role |-> "user", content |-> <<"Q", "2">>]>>

C17_Witness ==
  /\ Scanned
  /\ doc = ScenarioC.doc
  /\ cursor.line = 5
  /\ settings.contextLines = 10
  /\ Len(messages) = 1
  /\ ScanState.terminatedAt = 4

\* C18: after at least one append and an interruption, the scan started from
\* the written end marker or below it returns an assistant turn whose
\* content is the chunks written so far followed by the interruption tag;
\* after a normal finalize no turn of the scan carries that tag.
C18_InterruptedDistinguishable ==
  /\ ( /\ pc = "rescannedInterrupted"
       /\ settings.contextLines >= 1
       /\ trim(req[1].result) # <<>> )
     => \E j \in 1..Len(messages) :
          Turn(messages[j]) =
            [role |-> "assistant",
             content |-> trim(processContent(req[1].result) \o NL \o InterruptTag)]
  /\ pc = "rescanned" =>
       \A j \in 1..Len(messages) : ~includes(messages[j].content, InterruptTag)

\* the scan read line t
WasRead(t) == LET rd == ScanState.reads IN \E n \in 1..Len(rd) : rd[n] = t

\* the scan state when the lines below line t have been read
StateBelow(t) ==
  ScanEnd(SubSeq(doc, t + 2, Len(doc)), cursor.line - t - 1, settings.contextLines)

\* C19 as stated: a line of 4 or more x/X characters is a hard terminator:
\* the scan stops at it and no turn is read from a line above it.
C19_XLineTerminates ==
  Scanned =>
    \A t \in 0..cursor.line :
      ( WasRead(t) /\ IsXLine(doc[t + 1]) )
      => /\ ScanState.terminatedAt = t
         /\ \A j \in 1..Len(messages) : \A l \in messages[j].src : l > t

\* C19 amended: a line of 4 or more x/X characters is no terminator but
\* plain content: the scan does not stop at it and reads the line above it,
\* and the line is part of the turn being collected when a collecting mode
\* is open and of no turn otherwise.
C19_XLineIsContent ==
  Scanned =>
    \A t \in 0..cursor.line :
      ( WasRead(t) /\ IsXLine(doc[t + 1]) )
      => /\ ScanState.terminatedAt # t
         /\ t > 0 => WasRead(t - 1)
         /\ IF StateBelow(t).collectingMode # "none"
            THEN \E j \in 1..Len(messages) :
                   /\ t \in messages[j].src
                   /\ messages[j].role = StateBelow(t).collectingMode
                   /\ includes(messages[j].content, trim(doc[t + 1]))
            ELSE \A j \in 1..Len(messages) : t \notin messages[j].src

\* an x line collected into a turn and a turn read from above it
C19_Witness ==
  /\ Scanned
  /\ \E t \in 1..cursor.line :
       /\ IsXLine(doc[t + 1])
       /\ \E j \in 1..Len(messages) : t \in messages[j].src
       /\ \E j \in 1..Len(messages) : \E l \in messages[j].src : l < t

\* C20: a line that contains '=-=' anywhere in it, not only at its start,
\* ends the traversal when the scan reads it: it is the last line read and
\* no turn is read from that line or from a line above it.
C20_TerminatorAnywhere ==
  Scanned =>
    \A t \in 0..cursor.line :
      ( WasRead(t) /\ includes(doc[t + 1], TermMark) )
      => /\ ScanState.terminatedAt = t
         /\ \A j \in 1..Len(messages) : \A l \in messages[j].src : l > t

MarkRole(m) == IF m = UserMark THEN "user" ELSE "assistant"

\* a line that ends with marker m, does not start with it, and has other
\* non-whitespace text before it
EndsWithMark(line, m) ==
  LET t == trim(line)
  IN  /\ endsWith(t, m) /\ ~startsWith(t, m)
      /\ trim(SubSeq(t, 1, Len(t) - 3)) # <<>>
      /\ ~IsTermLine(line)

\* the text of a line that ends with a marker, without the marker
BeforeMark(line) == LET t == trim(line) IN SubSeq(t, 1, Len(t) - 3)

\* C21: a line that ends with '===' (resp. '= =') after other text closes a
\* multi-line user (resp. assistant) block: when the scan reads such a line
\* t and the content lines s..t-1 above it, bounded above by a '-----' line
\* or the start of the document, the transcript has one turn of that role
\* read from the lines s..t, whose content is those lines and the text of
\* line t before the marker.
C21_EndMarkerClosesBlock ==
  Scanned =>
    \A t \in 0..cursor.line : \A s \in 0..t : \A m \in {UserMark, AiMark} :
      ( /\ WasRead(t)
        /\ EndsWithMark(doc[t + 1], m)
        /\ \A l \in s..(t - 1) : IsContentLine(doc[l + 1]) /\ WasRead(l)
        /\ IF s = 0 THEN TRUE ELSE trim(doc[s]) = DashMark /\ WasRead(s - 1) )
      => \E j \in 1..Len(messages) :
           /\ messages[j].role = MarkRole(m)
           /\ messages[j].src = s..t
           /\ messages[j].content =
                trim(joinLines(SubSeq(doc, s + 1, t) \o <<BeforeMark(doc[t + 1])>>))

\* a line that starts and ends with marker m and has text between the two
\* occurrences
StartsAndEndsWithMark(line, m) ==
  /\ startsWith(line, m) /\ endsWith(line, m) /\ Len(line) > 6
  /\ trim(SubSeq(line, 4, Len(line) - 3)) # <<>>

\* C22 as stated: a line that starts and ends with the same marker is a
\* single-line turn of the marker's role whose content is the text between
\* the two occurrences.
C22_OverlapIsInlineTurn ==
  Scanned =>
    \A t \in 0..cursor.line : \A m \in {UserMark, AiMark} :
      ( WasRead(t) /\ StartsAndEndsWithMark(doc[t + 1], m) )
      => \E j \in 1..Len(messages) :
           /\ messages[j].src = {t}
           /\ messages[j].role = MarkRole(m)
           /\ messages[j].content = trim(SubSeq(doc[t + 1], 4, Len(doc[t + 1]) - 3))

\* a response's block is open in the document: the insertion cursor is set,
\* the text at the write head is no end marker and no interruption tag, and
\* the request that wrote the block is still in flight
WriterOpen ==
  /\ streamInsertPosition # NoPosition
  /\ ~HeadClosed
  /\ \E r \in Requests : InFlight(r) /\ req[r].wrote

\* C23: the scan is never executed while a writer is Open/Appending: no
\* step in which a request leaves idle and scans the document (the start of
\* generateResponse) is taken from a state in which a response block is open.
C23_ScanWriterExclusion ==
  [][ \A r \in Requests :
        ( req[r].pc = "idle" /\ req'[r].pc = "clip" ) => ~WriterOpen ]_vars

\* C24: with contextLines 0 the scan returns the empty transcript and reads
\* no line of the document, for every document and start line.
C24_BudgetZero ==
  ( Scanned /\ settings.contextLines = 0 )
  => /\ messages = <<>>
     /\ ScanState.reads = <<>>
     /\ ScanState.terminatedAt = -1

\* a scan with budget 0 of a document that has a turn under budget 1
C24_Witness ==
  /\ Scanned
  /\ settings.contextLines = 0
  /\ messages = <<>>
  /\ getContextMessages(doc, cursor.line, 1) # <<>>

\* the step in which the writer opens: the insertion cursor becomes set
Opens == streamInsertPosition = NoPosition /\ streamInsertPosition' # NoPosition

\* the start of the line the insertion cursor stands for after the step
OpenedHead == offsetToPos(doc', posToOffset(doc', streamInsertPosition'))

IsDashOnly(s) == Len(s) >= 5 /\ \A n \in 1..Len(s) : s[n] = "-"

\* line t is read inside an open block and carries neither '===' nor '= ='
\* nor the terminator
ReadInsideBlock(t) ==
  /\ WasRead(t)
  /\ StateBelow(t).collectingMode # "none"
  /\ ~includes(doc[t + 1], UserMark) /\ ~includes(doc[t + 1], AiMark)
  /\ ~IsTermLine(doc[t + 1])

\* line t closes the block open below it, as a separator does: behind it
\* the mode is none and the buffer is empty, and the line is part of no turn
ClosesBlock(t) ==
  /\ StateBelow(t - 1).collectingMode = "none"
  /\ StateBelow(t - 1).collectingContent = <<>>
  /\ \A j \in 1..Len(messages) : t \notin messages[j].src

\* line t is collected as content of the block open below it
JoinsBlock(t) ==
  /\ StateBelow(t - 1).collectingMode = StateBelow(t).collectingMode
  /\ \E j \in 1..Len(messages) :
       /\ t \in messages[j].src
       /\ messages[j].role = StateBelow(t).collectingMode

\* C27 as stated: a line is a block separator exactly when its trimmed text
\* is 5 or more dashes and nothing else: indented dashes close the block,
\* dashes followed by text do not.
C27_SeparatorIsTrimmedDashes ==
  Scanned =>
    \A t \in 0..cursor.line :
      ReadInsideBlock(t) => ( IsDashOnly(trim(doc[t + 1])) <=> ClosesBlock(t) )

\* C27 amended: a line without '===' and '= =' is a block separator exactly
\* when the line as it stands, untrimmed, starts with '-----': dashes
\* followed by other text close the block, and a line with whitespace
\* before the dashes is collected as content of the open block.
C27_SeparatorIsDashPrefix ==
  Scanned =>
    \A t \in 0..cursor.line :
      ReadInsideBlock(t) =>
        IF startsWith(doc[t + 1], DashMark)
        THEN ClosesBlock(t)
        ELSE /\ StateBelow(t - 1).collectingMode = StateBelow(t).collectingMode
             /\ trim(doc[t + 1]) # <<>> => JoinsBlock(t)

\* indented dashes collected into a turn together with the line above them
C27_Witness ==
  /\ Scanned
  /\ \E t \in 1..cursor.line :
       /\ ReadInsideBlock(t)
       /\ IsDashOnly(trim(doc[t + 1])) /\ ~startsWith(doc[t + 1], DashMark)
       /\ \E j \in 1..Len(messages) : {t - 1, t} \subseteq messages[j].src

\* text s starts with marker m, does not end with it, and has non-whitespace
\* text after it
HasInlineForm(s, m) ==
  /\ startsWith(s, m) /\ ~endsWith(s, m)
  /\ trim(substring(s, 3)) # <<>>
  /\ m = AiMark => ~includes(s, UserMark)

\* the scan state is the same behind line t as before it
Skipped(t) ==
  /\ \A j \in 1..Len(messages) : t \notin messages[j].src
  /\ Turns(StateBelow(t - 1).messages) = Turns(StateBelow(t).messages)
  /\ StateBelow(t - 1).collectingMode = StateBelow(t).collectingMode
  /\ StateBelow(t - 1).collectingContent = StateBelow(t).collectingContent

BufferOpenAt(t) ==
  LET below == StateBelow(t)
  IN  /\ WasRead(t)
      /\ below.collectingMode # "none"
      /\ trim(below.collectingContent) # <<>>

\* the lines of the document the buffer open at line t was read from
BufferLines(t) == {l + t + 1 : l \in StateBelow(t).collectingLines}

\* C29: when the scan reads a whole-line '===' or '= =' boundary at line t
\* while a buffer is open, the buffered lines become one turn with the role
\* of the mode open before the boundary, put in front of the turns emitted
\* so far, and behind the boundary the mode is the boundary's role and the
\* buffer is empty.
C29_BoundaryTransition ==
  Scanned =>
    \A t \in 0..cursor.line :
      ( IsBoundaryLine(doc[t + 1]) /\ BufferOpenAt(t) )
      => LET below == StateBelow(t)
             behind == StateBelow(t - 1)
         IN  /\ Turns(behind.messages) =
                  <<[role |-> below.collectingMode,
                     content |-> trim(below.collectingContent)]>>
                  \o Turns(below.messages)
             /\ behind.collectingMode = BoundaryRole(doc[t + 1])
             /\ behind.collectingContent = <<>>
             /\ behind.collectingLines = {}
             /\ \E j \in 1..Len(messages) :
                  /\ messages[j].src = BufferLines(t)
                  /\ messages[j].role = below.collectingMode
                  /\ messages[j].content = trim(below.collectingContent)

\* a boundary of one role read above a buffer collected under the other
\* role, and a turn read from above that boundary
C29_Witness ==
  /\ Scanned
  /\ \E t \in 0..cursor.line :
       /\ BufferOpenAt(t)
       /\ IsBoundaryLine(doc[t + 1])
       /\ BoundaryRole(doc[t + 1]) # StateBelow(t).collectingMode
       /\ \E j \in 1..Len(messages) : messages[j].src = BufferLines(t)
       /\ \E j \in 1..Len(messages) : \E l \in messages[j].src : l < t

\* line t is a separator line or a single-line turn for the scan
IsSeparatorLine(line) ==
  /\ startsWith(line, DashMark)
  /\ ~includes(line, UserMark) /\ ~includes(line, AiMark)

IsInlineLine(line) == \E m \in {UserMark, AiMark} : HasInlineForm(line, m)

\* C30: behind a separator line and behind an inline turn the mode is none;
\* a plain content line read while the mode is none is part of no turn and
\* leaves the mode none, so lines are collected again only above a
\* whole-line boundary read further up.
C30_OutsideBlockIgnored ==
  Scanned =>
    \A t \in 0..cursor.line :
      WasRead(t) =>
        LET below == StateBelow(t)
            behind == StateBelow(t - 1)
        IN  /\ ( IsSeparatorLine(doc[t + 1]) \/ IsInlineLine(doc[t + 1]) )
               => /\ behind.collectingMode = "none"
                  /\ behind.collectingContent = <<>>
            /\ ( IsPlainLine(doc[t + 1]) /\ below.collectingMode = "none" )
               => /\ \A j \in 1..Len(messages) : t \notin messages[j].src
                  /\ behind.collectingMode = "none"
                  /\ behind.collectingContent = <<>>
                  /\ Turns(behind.messages) = Turns(below.messages)

\* a content line ignored between a separator or inline turn below it, read
\* while a block was open, and a block read from above it
C30_Witness ==
  /\ Scanned
  /\ \E t \in 1..(cursor.line - 1) :
       /\ WasRead(t)
       /\ IsPlainLine(doc[t + 1]) /\ trim(doc[t + 1]) # <<>>
       /\ IsSeparatorLine(doc[t + 2]) \/ IsInlineLine(doc[t + 2])
       /\ StateBelow(t + 1).collectingMode # "none"
       /\ \A j \in 1..Len(messages) : t \notin messages[j].src
       /\ \E j \in 1..Len(messages) : \E l \in messages[j].src : l < t

\* the elements of a set of line indices in ascending order
RECURSIVE Ascending(_)
Ascending(S) ==
  IF S = {} THEN <<>>
  ELSE LET m == CHOOSE x \in S : \A y \in S : x <= y
       IN  <<m>> \o Ascending(S \ {m})

\* the lines of the document at the indices S, top to bottom
LinesAt(S) == LET ix == Ascending(S) IN [n \in 1..Len(ix) |-> doc[ix[n] + 1]]

\* turn m was flushed from a block: its lines carry no marker
IsBlockTurn(m) ==
  \A l \in m.src : ~includes(doc[l + 1], UserMark) /\ ~includes(doc[l + 1], AiMark)

\* C31: the content of a turn flushed from a block is the block's lines
\* joined by newlines in document order, top to bottom, then trimmed, for
\* any number of lines and also with blank lines inside the block.
C31_ContentInDocumentOrder ==
  Scanned =>
    \A j \in 1..Len(messages) :
      IsBlockTurn(messages[j])
      => messages[j].content = trim(joinLines(LinesAt(messages[j].src)))

\* a block turn of three lines with an empty line in the middle, its first
\* line different from its last
C31_Witness ==
  /\ Scanned
  /\ \E j \in 1..Len(messages) : \E t \in 0..(cursor.line - 3) :
       /\ IsBlockTurn(messages[j])
       /\ messages[j].src = {t, t + 1, t + 2}
       /\ doc[t + 2] = <<>>
       /\ trim(doc[t + 1]) # <<>> /\ trim(doc[t + 3]) # <<>>
       /\ doc[t + 1] # doc[t + 3]

\* a step that appends one chunk of the stream
Appends == pc = "streaming" /\ req'[1].reads = req[1].reads + 1

\* the chunk an appending step receives
AppendedChunk == SubSeq(req'[1].result, Len(req[1].result) + 1, Len(req'[1].result))

\* C32: in one stream every append adds the length of the chunk received to
\* lastContentLength, also for chunks with thought tags, so the counter is
\* the sum of the lengths of the chunks received, the text written so far
\* has that length, and the chunk is written directly behind it.
C32_WrittenLength ==
  [][ Appends =>
        LET before == IF streamInsertPosition = NoPosition THEN <<>> ELSE WrittenRegion
        IN  /\ lastContentLength' = lastContentLength + Len(AppendedChunk)
            /\ lastContentLength' = Len(req'[1].result)
            /\ Len(WrittenRegion') = lastContentLength'
            /\ WrittenRegion' = before \o processContent(AppendedChunk)
            /\ posToOffset(doc', writeHead(W)') = StreamOffset' + Len(WrittenRegion') ]_vars

\* three chunks were written, an opening and a closing thought tag among
\* them, both rewritten
C32_Witness ==
  /\ pc = "streaming"
  /\ req[1].reads = 3
  /\ includes(req[1].result, ThoughtOpen) /\ includes(req[1].result, ThoughtClose)
  /\ includes(WrittenRegion, BracketOpen) /\ includes(WrittenRegion, BracketClose)
  /\ lastContentLength = Len(req[1].result)

\* C33: after any sequence of appends the text written to the document has
\* no '<thought>' and no '</thought>' tag: it is the concatenated stream
\* with every tag in bracket form, also for a tag split between two chunks.
C33_NoThoughtTagWritten ==
  ( pc = "streaming" /\ streamInsertPosition # NoPosition )
  => /\ ~includes(WrittenRegion, ThoughtOpen)
     /\ ~includes(WrittenRegion, ThoughtClose)
     /\ WrittenRegion = processContent(req[1].result)

\* the step of the Ask AI command
Asks == pc = "start" /\ pc' = "streaming"

\* the prompt line of the Ask AI specification before the command
PromptLine == Len(doc) - 1

\* one of the up to 5 lines above line l is '= =' after trimming
SeparatorAbove(d, l) ==
  \E i \in 0..(l - 1) : i >= l - 5 /\ trim(d[i + 1]) = AiMark

\* line l with the '===' prefix the command gives it
Prefixed(line) == IF startsWith(line, UserMark) THEN line ELSE UserMark \o line

\* C34: with autoAddSeparator the Ask AI command inserts a '= =' line directly
\* above the prompt line exactly when none of the up to 5 lines above it is
\* '= =' after trimming, and the prompt, one line lower then, gets its '==='
\* prefix; the step applied again to the result inserts nothing; without the
\* option nothing is inserted; and the end of the stream writes the
\* '===Continue...' and '-----' lines behind the end marker exactly when the
\* command inserted the '= =' line.
C34_AutoSeparator ==
  [][ /\ Asks =>
           LET L == PromptLine
               inserts == settings.autoAddSeparator /\ ~SeparatorAbove(doc, L)
               again == autoAddSeparatorIfNeeded([doc |-> doc', cursor |-> cursor'],
                                                 IF inserts THEN L + 1 ELSE L)
           IN  /\ addedSeparatorInCurrentSession' = inserts
               /\ doc' = IF inserts
                         THEN SubSeq(doc, 1, L) \o <<AiMark, Prefixed(doc[L + 1])>>
                         ELSE SubSeq(doc, 1, L) \o <<Prefixed(doc[L + 1])>>
               /\ settings.autoAddSeparator => ~again.added /\ again.ed.doc = doc'
      /\ pc = "streaming" =>
           /\ addedSeparatorInCurrentSession' = addedSeparatorInCurrentSession
           /\ ( pc' = "finalized" /\ streamInsertPosition # NoPosition )
              => /\ startsWith(TextAtHead', EndMarker)
                 /\ startsWith(SubSeq(TextAtHead', Len(EndMarker) + 1, Len(TextAtHead')),
                               ContinueText)
                      <=> addedSeparatorInCurrentSession
    ]_vars

\* a '= =' line 6 lines above the prompt: the command inserted a second one
\* and the finished response ends with the continue lines
C34_Witness ==
  /\ pc = "finalized"
  /\ streamInsertPosition # NoPosition
  /\ addedSeparatorInCurrentSession
  /\ \E l \in 6..lastLine(doc) :
       /\ trim(doc[l + 1]) = AiMark
       /\ trim(doc[l - 5]) = AiMark
       /\ startsWith(doc[l + 2], UserMark)
  /\ includes(TextAtHead, ContinueText)

\* C35: when Ask AI is invoked with an empty apiKey the document and the
\* cursor are unchanged (no '= =' line, no '===' prefix), no writer or
\* streaming field changes, and no request is issued: the invocation ends
\* at once with nothing sent.
C35_MissingApiKey ==
  [][ \A r \in Requests :
        ( req[r].pc = "idle" /\ req'[r].pc # "idle" /\ ~settings.apiKey )
        => /\ UNCHANGED <<doc, cursor, addedSeparatorInCurrentSession, streamInsertPosition,
                          lastContentLength, currentAbortController, isStreaming,
                          aborted, messages>>
           /\ req'[r].pc = "done"
           /\ req'[r].sent = <<>>
           /\ req'[r].signal = NoController ]_vars

\* Ask AI was invoked without a key on a line without the '===' prefix
C35_Witness ==
  /\ ~settings.apiKey
  /\ req[1].pc = "done"
  /\ ~startsWith(doc[cursor.line + 1], UserMark)
  /\ ~isStreaming
  /\ streamInsertPosition = NoPosition

\* C36: every Ask AI command that issues a request on a prompt line with
\* non-whitespace text sends a message list that ends with a user turn whose
\* content is the text of that line after the '===' prefix, for every
\* contextLines setting, 0 included.
C36_PromptAlwaysSent ==
  [][ ( Asks /\ trim(doc[PromptLine + 1]) # <<>> )
      => /\ req'[1].sent # <<>>
         /\ req'[1].sent[Len(req'[1].sent)] =
              [role |-> "user",
               content |-> trim(substring(Prefixed(doc[PromptLine + 1]), 3))] ]_vars

\* response r is being consumed: its read loop runs and its signal is not
\* aborted
Consumed(r) == req[r].pc = "read" /\ req[r].signal \notin aborted

\* C37: in every state in which a response stream is being consumed the
\* interrupt command is available for it: isStreaming is set and the abort
\* controller the plugin holds is the one of that stream, so the completion
\* of another response has cleared neither; and no interrupt left a stream
\* that had written content without its interruption marker.
C37_InterruptAvailable ==
  /\ \A r \in Requests :
       Consumed(r) => ( isStreaming /\ currentAbortController = req[r].signal )
  /\ hist.noTag = {}


RECURSIVE Concat(_)
Concat(ss) == IF ss = <<>> THEN <<>> ELSE Head(ss) \o Concat(Tail(ss))

\* the text the writer has put below its separator, none before it opens
WrittenText == IF streamInsertPosition = NoPosition THEN <<>> ELSE WrittenRegion

\* C38: however the server-sent event text of a response is cut into network
\* reads, once the response has ended the returned result and the text
\* written to the document are the concatenation of all content deltas in
\* order; a data line cut by a read boundary does not lose its delta.
C38_FramingIndependent ==
  req[1].pc = "done" =>
    /\ req[1].result = Concat(req[1].deltas)
    /\ WrittenText = Concat(req[1].deltas)

====
